---- MODULE Spec2Model ----
(***************************************************************************)
(* Terminal session of rocket-tycoon/manifest.                             *)
(*                                                                         *)
(* The repository holds two implementations of the session:               *)
(*   "legion" : manifest-gpui/legion_terminal/src/terminal.rs              *)
(*   "app"    : manifest-app/terminal/src/lib.rs                           *)
(* Init picks one of them, and every action follows the code of the        *)
(* implementation picked.                                                  *)
(*                                                                         *)
(* Two execution contexts touch the engine (Term) behind the FairMutex:    *)
(* the reader loop of the Process Host (the alacritty EventLoop thread)    *)
(* and the UI thread, on which the consumer task and every session         *)
(* operation run, one at a time.                                           *)
(***************************************************************************)
EXTENDS Integers, Sequences, FiniteSets, TLC

(* ----------------------------- bounds --------------------------------- *)

\* Output chunks the subprocess produces over the whole run.
MaxFeed == 2

\* Session operations the UI layer issues over the whole run.
MaxOps == 2

(* ------------------------- program constants -------------------------- *)

\* WindowSize carries rows and columns as u16.
U16 == 65536

VARIABLES
    impl,          \* "legion" | "app"
    alive,         \* the Terminal entity exists
    term,          \* the engine (Term) behind the FairMutex
    next,          \* FairMutex.next: the threads that reserved the lock, in order
    data,          \* FairMutex.data: "none" | "reader" | "ui"
    readerPc,      \* position of the reader loop
    rProcessed,    \* chunks the reader parsed while holding the lock this time
    rChunk,        \* the chunk the reader is in the middle of parsing
    child,         \* "running" | "exited"
    ptySize,       \* the window size last sent to the Process Host
    ptyIn,         \* Msg::Input messages accepted by the Process Host
    rxOpen,        \* the receiving end of the event channel exists
    events_rx,     \* the unbounded channel of engine events
    consumerPc,    \* "run" | "cancelled"
    uiPc,          \* "idle" | "want_next" | "want_data" | "locked"
    uiCont,        \* what the UI thread does once it holds the lock
    uiArg,         \* the bounds of a set_size in progress
    cur,           \* the engine event being dispatched
    events,        \* legion: pending InternalEvents
    last_content,  \* the last snapshot
    emitted,       \* events emitted to the UI layer, in order
    ops,           \* session operations issued so far
    sent,          \* history: every engine event sent on the channel
    dispatched,    \* history: every engine event dispatched to the session
    bypass,        \* reader acquisitions since the UI thread began to wait
    wakeDone,      \* the engine position carried by the last Wakeup handled
    lastOp,        \* the session operation issued last, since the last sync
    obs,           \* what the last sync saw of the operations before it
    keyst,         \* a key event: the keystroke, the mode flags, what became of it
    pointer,       \* the pointer protocol of the app session
    link,          \* a regex-matched URL and what the locator made of it
    metrics        \* pixel bounds and cell metrics, and the counts derived from them

vars == <<impl, alive, term, next, data, readerPc, rProcessed, rChunk, child,
          ptySize, ptyIn, rxOpen, events_rx, consumerPc, uiPc, uiCont, uiArg,
          cur, events, last_content, emitted, ops, sent, dispatched, bypass,
          wakeDone, lastOp, obs, keyst, pointer, link, metrics>>

\* The variables of the key, pointer, URL and dimension handling, which the
\* steps of the session leave alone.
inputVars == <<keyst, pointer, link, metrics>>

\* The variables of the session proper.
sessionVars == <<impl, alive, term, next, data, readerPc, rProcessed, rChunk, child,
                 ptySize, ptyIn, rxOpen, events_rx, consumerPc, uiPc, uiCont, uiArg,
                 cur, events, last_content, emitted, ops, sent, dispatched, bypass,
                 wakeDone, lastOp, obs>>

(* --------------------------- dimensions ------------------------------- *)

Bounds(h, lh, w, cw) == [height |-> h, line_height |-> lh, width |-> w, cell_width |-> cw]

\* usize::MAX, what a cast of +infinity gives. It stands here as the largest
\* integer the checker holds; like 2^64 - 1 it is 65535 modulo 2^16.
UsizeMax == 2147483647

\* floor(n / d), the divisor not zero
FloorDiv(n, d) == IF d > 0 THEN n \div d ELSE (0 - n) \div (0 - d)

\* (n / d).floor() as usize on Pixels (f32), for whole pixel values: the cast
\* saturates, so a negative quotient and NaN (0 / 0) give 0 and +infinity
\* (a positive size over a zero metric) gives usize::MAX.
floor_as_usize(n, d) ==
    IF d = 0 THEN (IF n > 0 THEN UsizeMax ELSE 0)
    ELSE IF FloorDiv(n, d) < 0 THEN 0
    ELSE FloorDiv(n, d)

\* A cast that keeps the sign of the quotient: the variant the property that
\* the counts are never negative must reject.
num_lines_signed(b) == IF b.line_height = 0 THEN 0 ELSE FloorDiv(b.height, b.line_height)

\* TerminalBounds::num_lines
num_lines(b) == floor_as_usize(b.height, b.line_height)

\* TerminalBounds::num_columns
num_columns(b) == floor_as_usize(b.width, b.cell_width)

\* From<TerminalBounds> for WindowSize: `as u16`
WindowSize(b) == [num_lines |-> num_lines(b) % U16, num_cols |-> num_columns(b) % U16]

\* TerminalBounds::default() of each implementation
DefaultBounds(i) == IF i = "legion" THEN Bounds(400, 20, 800, 8) ELSE Bounds(300, 14, 500, 7)

\* The bounds a view may ask for.
BoundsInputs == {Bounds(40, 20, 24, 8), Bounds(65537, 1, 16, 8)}

(* ------------------------------ engine -------------------------------- *)

\* What the subprocess can write: a line that pushes a line into the
\* scrollback, the alternate-screen switch, a bell, a title.
Chunks == {"lf", "alt", "bell", "title"}

Min(a, b) == IF a < b THEN a ELSE b

Max(a, b) == IF a > b THEN a ELSE b

RECURSIVE Count(_, _)
Count(s, c) == IF s = <<>> THEN 0 ELSE (IF Head(s) = c THEN 1 ELSE 0) + Count(Tail(s), c)

\* Term::new(config, &TerminalBounds::default(), listener)
NewTerm(i) ==
    [cells |-> <<>>, cursor |-> 0, alt |-> FALSE, display_offset |-> 0, history |-> 0,
     lines |-> num_lines(DefaultBounds(i)), cols |-> num_columns(DefaultBounds(i))]

\* The parser writes the chunk into the grid (first half of feeding a chunk).
FeedCells(t, c) ==
    [t EXCEPT !.cells = Append(@, c),
              !.history = IF c = "lf" THEN @ + 1 ELSE @]

\* ... and then moves the cursor and updates the modes (second half).
FeedRest(t, c) ==
    [t EXCEPT !.cursor = @ + 1,
              !.alt = IF c = "alt" THEN ~@ ELSE @,
              !.display_offset = IF c = "lf" /\ @ # 0 THEN Min(@ + 1, t.history) ELSE @]

\* Term::resize(bounds)
TermResize(t, b) == [t EXCEPT !.lines = num_lines(b), !.cols = num_columns(b)]

\* Term::scroll_display(scroll)
ScrollDisplay(t, s) ==
    [t EXCEPT !.display_offset =
        CASE s.t = "Delta"    -> Min(Max(@ + s.n, 0), t.history)
          [] s.t = "PageUp"   -> Min(@ + t.lines, t.history)
          [] s.t = "PageDown" -> Max(@ - t.lines, 0)
          [] s.t = "Top"      -> t.history
          [] OTHER            -> 0]

(* --------------------------- event channel ---------------------------- *)

Ev(e, t) == [e |-> e, at |-> Len(t.cells)]

\* EventListener::send_event: unbounded_send(event).ok()
\* A channel of capacity one that drops what does not fit: the faulty variant
\* the ordering property must reject.
send_event_bounded(q, open, ev) == IF open /\ q = <<>> THEN Append(q, ev) ELSE q

send_event(q, open, ev) == IF open THEN Append(q, ev) ELSE q

RECURSIVE send_all(_, _, _)
send_all(q, open, evs) ==
    IF evs = <<>> THEN q ELSE send_all(send_event(q, open, Head(evs)), open, Tail(evs))

\* The engine events a chunk makes the engine send while it is parsed.
ChunkEvents(c, t) ==
    CASE c = "bell"  -> <<Ev("Bell", t)>>
      [] c = "title" -> <<Ev("Title", t)>>
      [] OTHER       -> <<>>

(* ------------------------------- lock --------------------------------- *)

\* The UI thread is blocked in a lock call.
UiWaiting == uiPc \in {"want_next", "want_data"}

\* FairMutex::lock called on the UI thread: the reservation (next) is taken
\* first, in arrival order, then the data lock; the call returns at once when
\* both are free and blocks otherwise.
lock ==
    /\ IF next = <<>>
       THEN IF data = "none"
            THEN uiPc' = "locked" /\ data' = "ui" /\ next' = next
            ELSE uiPc' = "want_data" /\ data' = data /\ next' = <<"ui">>
       ELSE uiPc' = "want_next" /\ data' = data /\ next' = Append(next, "ui")
    /\ bypass' = 0

\* FairMutex::lock_unfair called on the UI thread: the data lock alone, with
\* no reservation.
lock_unfair ==
    /\ IF data = "none"
       THEN uiPc' = "locked" /\ data' = "ui"
       ELSE uiPc' = "want_data" /\ data' = data
    /\ next' = next
    /\ bypass' = 0

(* --------------------------- reader loop ------------------------------ *)

\* pty_read: lease() reserves the lock before any byte is parsed.
ReaderLease ==
    /\ UNCHANGED inputVars
    /\ readerPc = "poll"
    /\ child = "running"
    /\ Len(term.cells) < MaxFeed
    /\ next' = Append(next, "reader")
    /\ readerPc' = "leased"
    /\ rProcessed' = 0
    /\ lastOp' = lastOp
    /\ UNCHANGED <<impl, alive, term, data, rChunk, child, ptySize, ptyIn, rxOpen,
                   events_rx, consumerPc, uiPc, uiCont, uiArg, cur, events,
                   last_content, emitted, ops, sent, dispatched, bypass, wakeDone, obs>>

\* pty_read: try_lock_unfair() once the lease is held.
ReaderTryLock ==
    /\ UNCHANGED inputVars
    /\ readerPc = "leased"
    /\ Head(next) = "reader"
    /\ data = "none"
    /\ data' = "reader"
    /\ readerPc' = "locked"
    /\ bypass' = IF UiWaiting THEN bypass + 1 ELSE bypass
    /\ lastOp' = lastOp
    /\ UNCHANGED <<impl, alive, term, next, rProcessed, rChunk, child, ptySize, ptyIn,
                   rxOpen, events_rx, consumerPc, uiPc, uiCont, uiArg, cur, events,
                   last_content, emitted, ops, sent, dispatched, wakeDone, obs>>

\* parser.advance, first half
ReaderFeedCells ==
    /\ UNCHANGED inputVars
    /\ readerPc = "locked"
    /\ Len(term.cells) < MaxFeed
    /\ \E c \in Chunks :
         /\ term' = FeedCells(term, c)
         /\ rChunk' = c
    /\ readerPc' = "mid"
    /\ lastOp' = lastOp
    /\ UNCHANGED <<impl, alive, next, data, rProcessed, child, ptySize, ptyIn, rxOpen,
                   events_rx, consumerPc, uiPc, uiCont, uiArg, cur, events,
                   last_content, emitted, ops, sent, dispatched, bypass, wakeDone, obs>>

\* parser.advance, second half; the engine's listener sends what the chunk raises
ReaderFeedRest ==
    /\ UNCHANGED inputVars
    /\ readerPc = "mid"
    /\ term' = FeedRest(term, rChunk)
    /\ events_rx' = send_all(events_rx, rxOpen, ChunkEvents(rChunk, term'))
    /\ sent' = sent \o ChunkEvents(rChunk, term')
    /\ rProcessed' = rProcessed + 1
    /\ rChunk' = "none"
    /\ readerPc' = "locked"
    /\ lastOp' = lastOp
    /\ UNCHANGED <<impl, alive, next, data, child, ptySize, ptyIn, rxOpen,
                   consumerPc, uiPc, uiCont, uiArg, cur, events,
                   last_content, emitted, ops, dispatched, bypass, wakeDone, obs>>

\* end of pty_read: Wakeup is sent, then the lock and the lease are dropped
ReaderUnlock ==
    /\ UNCHANGED inputVars
    /\ readerPc = "locked"
    /\ rProcessed > 0
    /\ events_rx' = send_event(events_rx, rxOpen, Ev("Wakeup", term))
    /\ sent' = Append(sent, Ev("Wakeup", term))
    /\ data' = "none"
    /\ next' = Tail(next)
    /\ readerPc' = "poll"
    /\ rProcessed' = 0
    /\ lastOp' = lastOp
    /\ UNCHANGED <<impl, alive, term, rChunk, child, ptySize, ptyIn, rxOpen,
                   consumerPc, uiPc, uiCont, uiArg, cur, events,
                   last_content, emitted, ops, dispatched, bypass, wakeDone, obs>>

\* The subprocess exits (cleanly or not) whenever it likes; the reader loop
\* learns of it when it polls next.
ChildExits ==
    /\ UNCHANGED inputVars
    /\ child = "running"
    /\ readerPc = "poll"
    /\ child' = "exited"
    /\ lastOp' = lastOp
    /\ UNCHANGED <<impl, alive, term, next, data, readerPc, rProcessed, rChunk,
                   ptySize, ptyIn, rxOpen, events_rx, consumerPc, uiPc, uiCont, uiArg,
                   cur, events, last_content, emitted, ops, sent, dispatched, bypass,
                   wakeDone, obs>>

\* child-exit notification: ChildExit(code) is sent when the exit code is known,
\* then the loop asks for the lock to call Term::exit()
ReaderChildExit ==
    /\ UNCHANGED inputVars
    /\ readerPc = "poll"
    /\ child = "exited"
    /\ \E known \in BOOLEAN :
         LET evs == IF known THEN <<Ev("ChildExit", term)>> ELSE <<>> IN
         /\ events_rx' = send_all(events_rx, rxOpen, evs)
         /\ sent' = sent \o evs
    /\ next' = Append(next, "reader")
    /\ readerPc' = "exit_wait"
    /\ lastOp' = lastOp
    /\ UNCHANGED <<impl, alive, term, data, rProcessed, rChunk, child, ptySize, ptyIn,
                   rxOpen, consumerPc, uiPc, uiCont, uiArg, cur, events,
                   last_content, emitted, ops, dispatched, bypass, wakeDone, obs>>

\* self.terminal.lock().exit() sends Exit; Wakeup follows; the loop ends
ReaderExit ==
    /\ UNCHANGED inputVars
    /\ readerPc = "exit_wait"
    /\ Head(next) = "reader"
    /\ data = "none"
    /\ events_rx' = send_all(events_rx, rxOpen, <<Ev("Exit", term), Ev("Wakeup", term)>>)
    /\ sent' = sent \o <<Ev("Exit", term), Ev("Wakeup", term)>>
    /\ next' = Tail(next)
    /\ readerPc' = "stopped"
    /\ bypass' = IF UiWaiting THEN bypass + 1 ELSE bypass
    /\ lastOp' = lastOp
    /\ UNCHANGED <<impl, alive, term, data, rProcessed, rChunk, child, ptySize, ptyIn,
                   rxOpen, consumerPc, uiPc, uiCont, uiArg, cur, events,
                   last_content, emitted, ops, dispatched, wakeDone, obs>>

Reader ==
    \/ ReaderLease
    \/ ReaderTryLock
    \/ ReaderFeedCells
    \/ ReaderFeedRest
    \/ ReaderUnlock
    \/ ReaderChildExit
    \/ ReaderExit

(* ------------------------- pending operations ------------------------- *)

NoBounds == Bounds(0, 1, 0, 1)

NoScroll == [t |-> "None", n |-> 0]

\* InternalEvent::Resize(bounds)
Resize(b) == [k |-> "Resize", b |-> b, s |-> NoScroll]

\* InternalEvent::Scroll(scroll)
Scroll(s) == [k |-> "Scroll", b |-> NoBounds, s |-> s]

Delta(n) == [t |-> "Delta", n |-> n]

PageUp == [t |-> "PageUp", n |-> 0]

PageDown == [t |-> "PageDown", n |-> 0]

Top == [t |-> "Top", n |-> 0]

Bottom == [t |-> "Bottom", n |-> 0]

\* The line counts a scroll_lines call is tried with.
DeltaInputs == {-1, 0, 1}

(* ------------------------------ snapshot ------------------------------ *)

\* TerminalContent::default()
DefaultContent(i) ==
    [cells |-> <<>>, mode |-> FALSE, display_offset |-> 0, cursor |-> 0,
     terminal_bounds |-> DefaultBounds(i)]

\* A snapshot whose cursor is left over from the previous snapshot: the torn
\* variant the consistency property must reject.
make_content_torn(t, last) ==
    [cells |-> t.cells,
     mode |-> t.alt,
     display_offset |-> t.display_offset,
     cursor |-> last.cursor,
     terminal_bounds |-> last.terminal_bounds]

\* legion Terminal::make_content
make_content(t, last) ==
    [cells |-> t.cells,
     mode |-> t.alt,
     display_offset |-> t.display_offset,
     cursor |-> t.cursor,
     terminal_bounds |-> last.terminal_bounds]

\* A re-sync that keeps the previous snapshot: the stale variant the freshness
\* property must reject.
sync_content_stale(t, last) == last

\* app Terminal::sync_content: the TerminalContent it builds
sync_content(t, last) ==
    [cells |-> t.cells,
     mode |-> t.alt,
     display_offset |-> t.display_offset,
     cursor |-> t.cursor,
     terminal_bounds |-> last.terminal_bounds]

(* --------------------- legion: session operations --------------------- *)

\* A notify that delivers even when the reader loop is gone: the variant the
\* write property must reject.
notify_always(n) == n + 1

\* Notifier::notify / Notifier::on_resize: the message is dropped once the
\* reader loop is gone
notify(n) == IF readerPc # "stopped" THEN n + 1 ELSE n

\* An input that leaves the view where it is: the variant the live-position
\* property must reject.
input_no_scroll(q) == q

\* Terminal::input: Scroll(Bottom) is queued, then the bytes are written
input(q) == Append(q, Scroll(Bottom))

\* Terminal::resize
resize(q, b) == Append(q, Resize(b))

\* Terminal::scroll_lines
scroll_lines(q, lines) ==
    IF lines > 0 THEN Append(q, Scroll(Delta(lines)))
    ELSE IF lines < 0 THEN Append(q, Scroll(Delta(lines)))
    ELSE q

\* Terminal::scroll_page_up
scroll_page_up(q) == Append(q, Scroll(PageUp))

\* Terminal::scroll_page_down
scroll_page_down(q) == Append(q, Scroll(PageDown))

\* Terminal::scroll_to_top
scroll_to_top(q) == Append(q, Scroll(Top))

\* Terminal::scroll_to_bottom
scroll_to_bottom(q) == Append(q, Scroll(Bottom))

\* A sync turn that resizes the engine and the snapshot but sends no window
\* size: the variant the resize property must reject.
sync_event_no_pty(st, ev) ==
    CASE ev.k = "Resize" ->
            [st EXCEPT !.term = TermResize(@, ev.b),
                       !.last = [@ EXCEPT !.terminal_bounds = ev.b]]
      [] ev.k = "Clear"  -> st
      [] OTHER ->
            [st EXCEPT !.term = ScrollDisplay(@, ev.s)]

\* Terminal::sync, one turn of `while let Some(event) = self.events.pop_front()`:
\* st holds the rest of the queue, the engine, the window size sent and the
\* snapshot
sync_event(st, ev) ==
    CASE ev.k = "Resize" ->
            [st EXCEPT !.term = TermResize(@, ev.b),
                       !.pty = WindowSize(ev.b),
                       !.last = [@ EXCEPT !.terminal_bounds = ev.b]]
      [] ev.k = "Clear"  -> st
      [] OTHER ->
            [st EXCEPT !.term = ScrollDisplay(@, ev.s)]

\* Taking the newest pending event first: the variant the in-order property
\* must reject.
pop_back(q) == [ev |-> q[Len(q)], q |-> SubSeq(q, 1, Len(q) - 1)]

\* self.events.pop_front(): the event taken and the queue left
pop_front(q) == [ev |-> Head(q), q |-> Tail(q)]

\* Terminal::sync, the loop over the pending events
RECURSIVE sync_drain(_)
sync_drain(st) ==
    IF st.q = <<>> THEN st
    ELSE LET p == pop_front(st.q) IN
         sync_drain(sync_event([st EXCEPT !.q = p.q], p.ev))

\* Terminal::sync, with the lock held: the queue is drained, then the snapshot
\* is rebuilt
sync(q, t, pty, last) ==
    LET st == sync_drain([q |-> q, term |-> t, pty |-> pty, last |-> last]) IN
    [st EXCEPT !.last = make_content(st.term, st.last)]

\* Terminal::process_alac_event: what it emits to the UI layer
process_alac_event(ev) ==
    CASE ev.e = "Wakeup"    -> <<>>
      [] ev.e = "Bell"      -> <<"Bell">>
      [] ev.e = "Exit"      -> <<"CloseTerminal">>
      [] ev.e = "Title"     -> <<"TitleChanged">>
      [] ev.e = "ChildExit" -> <<"CloseTerminal">>
      [] OTHER              -> <<>>

(* ----------------------- app: session operations ---------------------- *)

\* A process_event without the Exit arm: the variant the exit-report property
\* must reject.
process_event_no_exit(ev) ==
    CASE ev.e = "Bell"  -> <<"Bell">>
      [] ev.e = "Title" -> <<"TitleChanged">>
      [] OTHER          -> <<>>

\* Terminal::process_event: what it emits to the UI layer at once (the Wakeup
\* arm emits after sync_content)
process_event(ev) ==
    CASE ev.e = "Bell"  -> <<"Bell">>
      [] ev.e = "Title" -> <<"TitleChanged">>
      [] ev.e = "Exit"  -> <<"CloseTerminal">>
      [] OTHER          -> <<>>

\* A set_size that adds the new height to the stored one: the variant the
\* idempotence property must reject.
set_size_body_adds(t, pty, last, b) ==
    [term |-> TermResize(t, b),
     pty  |-> WindowSize(b),
     last |-> [last EXCEPT !.terminal_bounds =
                  [b EXCEPT !.height = last.terminal_bounds.height + b.height]]]

\* A set_size that also clears the cells of the last snapshot: the variant the
\* frame property must reject.
set_size_body_clears(t, pty, last, b) ==
    [term |-> TermResize(t, b),
     pty  |-> WindowSize(b),
     last |-> [last EXCEPT !.terminal_bounds = b, !.cells = <<>>]]

\* Terminal::set_size, with the lock held: the engine is resized, the window
\* size is sent, and the dimensions stored on the last snapshot are set
set_size_body(t, pty, last, b) ==
    [term |-> TermResize(t, b),
     pty  |-> WindowSize(b),
     last |-> [last EXCEPT !.terminal_bounds = b]]

\* Terminal::process_event: the Wakeup arm is the one that syncs
process_event_syncs(ev) == ev.e = "Wakeup"

(* ------------------------------ UI thread ----------------------------- *)

NoEvent == [e |-> "None", at |-> 0]

Op(op, b, n) == [op |-> op, b |-> b, n |-> n]

readerVars == <<readerPc, rProcessed, rChunk, child>>

histVars == <<sent, wakeDone>>

\* A session operation can start: the entity exists and the UI thread is free.
UiFree == alive /\ uiPc = "idle"

\* legion Terminal::process_events: the next event is received and handed to
\* process_alac_event; sync() follows and asks for the lock with lock_unfair()
process_events ==
    /\ UNCHANGED inputVars
    /\ impl = "legion"
    /\ UiFree
    /\ consumerPc = "run"
    /\ events_rx # <<>>
    /\ cur' = Head(events_rx)
    /\ events_rx' = Tail(events_rx)
    /\ dispatched' = Append(dispatched, Head(events_rx))
    /\ emitted' = emitted \o process_alac_event(Head(events_rx))
    /\ lock_unfair
    /\ uiCont' = "sync"
    /\ UNCHANGED <<impl, alive, term, readerVars, ptySize, ptyIn, rxOpen,
                   consumerPc, uiArg, events, last_content, ops, histVars, lastOp, obs>>

\* app TerminalBuilder::build, the consumer loop: the next event is received and
\* handed to process_event; its Wakeup arm asks for the lock with lock()
consumer_loop ==
    /\ UNCHANGED inputVars
    /\ impl = "app"
    /\ UiFree
    /\ consumerPc = "run"
    /\ events_rx # <<>>
    /\ events_rx' = Tail(events_rx)
    /\ dispatched' = Append(dispatched, Head(events_rx))
    /\ IF process_event_syncs(Head(events_rx))
       THEN /\ cur' = Head(events_rx)
            /\ lock
            /\ uiCont' = "sync"
            /\ UNCHANGED emitted
       ELSE /\ emitted' = emitted \o process_event(Head(events_rx))
            /\ UNCHANGED <<cur, uiPc, uiCont, next, data, bypass>>
    /\ UNCHANGED <<impl, alive, term, readerVars, ptySize, ptyIn, rxOpen,
                   consumerPc, uiArg, events, last_content, ops, histVars, lastOp, obs>>

\* FairMutex::lock: the blocked self.next.lock() returns, and self.data.lock()
\* is called
UiLockNext ==
    /\ UNCHANGED inputVars
    /\ uiPc = "want_next"
    /\ Head(next) = "ui"
    /\ IF data = "none"
       THEN uiPc' = "locked" /\ data' = "ui" /\ next' = Tail(next) /\ bypass' = 0
       ELSE uiPc' = "want_data" /\ UNCHANGED <<data, next, bypass>>
    /\ UNCHANGED <<impl, alive, term, readerVars, ptySize, ptyIn, rxOpen,
                   events_rx, consumerPc, uiCont, uiArg, cur, events, last_content,
                   emitted, ops, histVars, dispatched, lastOp, obs>>

\* FairMutex::lock / lock_unfair: the blocked self.data.lock() returns; lock()
\* drops its reservation as it returns
UiLockData ==
    /\ UNCHANGED inputVars
    /\ uiPc = "want_data"
    /\ data = "none"
    /\ data' = "ui"
    /\ next' = IF next # <<>> /\ Head(next) = "ui" THEN Tail(next) ELSE next
    /\ uiPc' = "locked"
    /\ bypass' = 0
    /\ UNCHANGED <<impl, alive, term, readerVars, ptySize, ptyIn, rxOpen,
                   events_rx, consumerPc, uiCont, uiArg, cur, events, last_content,
                   emitted, ops, histVars, dispatched, lastOp, obs>>

\* legion Terminal::sync with the lock held, then cx.emit(Event::Wakeup)
sync_locked ==
    /\ UNCHANGED inputVars
    /\ impl = "legion"
    /\ uiPc = "locked"
    /\ uiCont = "sync"
    /\ LET st == sync(events, term, ptySize, last_content) IN
         /\ term' = st.term
         /\ ptySize' = st.pty
         /\ last_content' = st.last
         /\ events' = st.q
    /\ data' = "none"
    /\ emitted' = Append(emitted, "Wakeup")
    /\ wakeDone' = IF cur.e = "Wakeup" THEN cur.at ELSE wakeDone
    /\ obs' = [obs EXCEPT !.sinceInput = FALSE, !.inputSync = obs.sinceInput,
                           !.prevOffset = last_content.display_offset,
                           !.drained = Len(events)]
    /\ lastOp' = Op("none", NoBounds, 0)
    /\ uiPc' = "idle"
    /\ uiCont' = "none"
    /\ cur' = NoEvent
    /\ UNCHANGED <<impl, alive, next, readerVars, ptyIn, rxOpen, events_rx,
                   consumerPc, uiArg, ops, sent, dispatched, bypass>>

\* app Terminal::sync_content with the lock held, then cx.emit(Event::Wakeup)
sync_content_locked ==
    /\ UNCHANGED inputVars
    /\ impl = "app"
    /\ uiPc = "locked"
    /\ uiCont = "sync"
    /\ last_content' = sync_content(term, last_content)
    /\ data' = "none"
    /\ emitted' = Append(emitted, "Wakeup")
    /\ wakeDone' = IF cur.e = "Wakeup" THEN cur.at ELSE wakeDone
    /\ obs' = [obs EXCEPT !.sinceInput = FALSE, !.inputSync = obs.sinceInput,
                           !.prevOffset = last_content.display_offset,
                           !.drained = 0]
    /\ lastOp' = Op("none", NoBounds, 0)
    /\ uiPc' = "idle"
    /\ uiCont' = "none"
    /\ cur' = NoEvent
    /\ UNCHANGED <<impl, alive, term, next, readerVars, ptySize, ptyIn, rxOpen,
                   events_rx, consumerPc, uiArg, events, ops, sent, dispatched,
                   bypass>>

\* app Terminal::set_size is called: self.term.lock()
set_size ==
    /\ UNCHANGED inputVars
    /\ impl = "app"
    /\ UiFree
    /\ ops < MaxOps
    /\ \E b \in BoundsInputs : uiArg' = b
    /\ lock
    /\ uiCont' = "set_size"
    /\ ops' = ops + 1
    /\ UNCHANGED <<impl, alive, term, readerVars, ptySize, ptyIn, rxOpen,
                   events_rx, consumerPc, cur, events, last_content, emitted,
                   histVars, dispatched, lastOp, obs>>

\* app Terminal::set_size with the lock held, to its return
set_size_locked ==
    /\ UNCHANGED inputVars
    /\ impl = "app"
    /\ uiPc = "locked"
    /\ uiCont = "set_size"
    /\ LET st == set_size_body(term, ptySize, last_content, uiArg) IN
         /\ term' = st.term
         /\ ptySize' = st.pty
         /\ last_content' = st.last
    /\ data' = "none"
    /\ obs' = [obs EXCEPT !.resized = uiArg]
    /\ uiPc' = "idle"
    /\ uiCont' = "none"
    /\ uiArg' = NoBounds
    /\ UNCHANGED <<impl, alive, next, readerVars, ptyIn, rxOpen, events_rx,
                   consumerPc, cur, events, emitted, ops, histVars,
                   dispatched, bypass, lastOp>>

\* app Terminal::input
app_input ==
    /\ UNCHANGED inputVars
    /\ impl = "app"
    /\ UiFree
    /\ ops < MaxOps
    /\ ptyIn' = notify(ptyIn)
    /\ obs' = [obs EXCEPT !.sinceInput = TRUE]
    /\ lastOp' = Op("input", NoBounds, 0)
    /\ ops' = ops + 1
    /\ UNCHANGED <<impl, alive, term, next, data, readerVars, ptySize, rxOpen,
                   events_rx, consumerPc, uiPc, uiCont, uiArg, cur, events,
                   last_content, emitted, histVars, dispatched, bypass>>

\* A legion operation that only touches the pending queue: q is the queue it
\* leaves, op the record of the call
LegionQueueOp(q, op) ==
    /\ UNCHANGED inputVars
    /\ impl = "legion"
    /\ UiFree
    /\ ops < MaxOps
    /\ events' = q
    /\ lastOp' = op
    /\ ops' = ops + 1
    /\ UNCHANGED <<impl, alive, term, next, data, readerVars, ptySize, rxOpen,
                   events_rx, consumerPc, uiPc, uiCont, uiArg, cur,
                   last_content, emitted, histVars, dispatched, bypass>>

\* legion Terminal::input
legion_input ==
    /\ LegionQueueOp(input(events), Op("input", NoBounds, 0))
    /\ ptyIn' = notify(ptyIn)
    /\ obs' = [obs EXCEPT !.sinceInput = TRUE]

\* legion Terminal::resize
legion_resize ==
    /\ \E b \in BoundsInputs :
         /\ LegionQueueOp(resize(events, b), Op("resize", b, 0))
         /\ obs' = [obs EXCEPT !.resized = b]
    /\ UNCHANGED ptyIn

\* legion Terminal::scroll_lines
legion_scroll_lines ==
    /\ \E n \in DeltaInputs : LegionQueueOp(scroll_lines(events, n), Op("scroll_lines", NoBounds, n))
    /\ obs' = [obs EXCEPT !.sinceInput = FALSE]
    /\ UNCHANGED ptyIn

\* legion Terminal::scroll_page_up
legion_scroll_page_up ==
    /\ LegionQueueOp(scroll_page_up(events), Op("scroll_page_up", NoBounds, 0))
    /\ obs' = [obs EXCEPT !.sinceInput = FALSE]
    /\ UNCHANGED ptyIn

\* legion Terminal::scroll_page_down
legion_scroll_page_down ==
    /\ LegionQueueOp(scroll_page_down(events), Op("scroll_page_down", NoBounds, 0))
    /\ obs' = [obs EXCEPT !.sinceInput = FALSE]
    /\ UNCHANGED ptyIn

\* legion Terminal::scroll_to_top
legion_scroll_to_top ==
    /\ LegionQueueOp(scroll_to_top(events), Op("scroll_to_top", NoBounds, 0))
    /\ obs' = [obs EXCEPT !.sinceInput = FALSE]
    /\ UNCHANGED ptyIn

\* legion Terminal::scroll_to_bottom
legion_scroll_to_bottom ==
    /\ LegionQueueOp(scroll_to_bottom(events), Op("scroll_to_bottom", NoBounds, 0))
    /\ obs' = [obs EXCEPT !.sinceInput = FALSE]
    /\ UNCHANGED ptyIn

\* The owning view drops the Terminal entity: its fields go with it, the
\* consumer task (event_loop_task) and the receiving end of the channel among
\* them. Neither implementation has a Drop that tells the reader loop.
Teardown ==
    /\ UNCHANGED inputVars
    /\ UiFree
    /\ alive' = FALSE
    /\ consumerPc' = "cancelled"
    /\ rxOpen' = FALSE
    /\ events_rx' = <<>>
    /\ events' = <<>>
    /\ UNCHANGED <<impl, term, next, data, readerVars, ptySize, ptyIn, uiPc, uiCont,
                   uiArg, cur, last_content, emitted, ops, histVars, dispatched,
                   bypass, lastOp, obs>>

(* --------------------------- specification ---------------------------- *)

\* No key event, pointer event, URL match or measurement is in hand.
NoKey == [pc |-> "none"]

NoPointer == [pc |-> "none"]

NoLink == [pc |-> "none"]

NoMetrics == [pc |-> "none"]

\* The session after construction.
SessionInit ==
    /\ impl \in {"legion", "app"}
    /\ alive = TRUE
    /\ term = NewTerm(impl)
    /\ next = <<>>
    /\ data = "none"
    /\ readerPc = "poll"
    /\ rProcessed = 0
    /\ rChunk = "none"
    /\ child = "running"
    /\ ptySize = WindowSize(DefaultBounds(impl))
    /\ ptyIn = 0
    /\ rxOpen = TRUE
    /\ events_rx = <<>>
    /\ consumerPc = "run"
    /\ uiPc = "idle"
    /\ uiCont = "none"
    /\ uiArg = NoBounds
    /\ cur = NoEvent
    /\ events = <<>>
    /\ last_content = DefaultContent(impl)
    /\ emitted = <<>>
    /\ ops = 0
    /\ sent = <<>>
    /\ dispatched = <<>>
    /\ bypass = 0
    /\ wakeDone = 0
    /\ lastOp = Op("none", NoBounds, 0)
    /\ obs = [sinceInput |-> FALSE, inputSync |-> FALSE, resized |-> NoBounds,
              prevOffset |-> 0, drained |-> 0]

Init ==
    /\ SessionInit
    /\ keyst = NoKey
    /\ pointer = NoPointer
    /\ link = NoLink
    /\ metrics = NoMetrics

Ui ==
    \/ process_events
    \/ consumer_loop
    \/ UiLockNext
    \/ UiLockData
    \/ sync_locked
    \/ sync_content_locked
    \/ set_size
    \/ set_size_locked
    \/ app_input
    \/ legion_input
    \/ legion_resize
    \/ legion_scroll_lines
    \/ legion_scroll_page_up
    \/ legion_scroll_page_down
    \/ legion_scroll_to_top
    \/ legion_scroll_to_bottom

Next ==
    \/ Reader
    \/ ChildExits
    \/ Ui
    \/ Teardown

Spec == Init /\ [][Next]_vars

\* What runs on the UI thread without the user: the consumer task and the
\* lock acquisitions and bodies of the operations in progress.
Consumer ==
    \/ process_events
    \/ consumer_loop
    \/ UiLockNext
    \/ UiLockData
    \/ sync_locked
    \/ sync_content_locked
    \/ set_size_locked

\* The steps of the progress claims: the reader, the subprocess, the consumer,
\* teardown, and the user operations that write to the subprocess or take the
\* engine lock.  The requests that only append to the pending queue are left
\* to Spec.
FairNext ==
    \/ Reader
    \/ ChildExits
    \/ Consumer
    \/ set_size
    \/ app_input
    \/ legion_input
    \/ Teardown

\* The reader thread keeps running and the executor keeps polling the consumer
\* task; the user and the subprocess owe nothing.
FairSpec == Init /\ [][FairNext]_vars /\ WF_vars(Reader) /\ WF_vars(Consumer)

\* The steps of the claim about queued requests: the reader, the subprocess,
\* the consumer, the app's resize, and the legion requests that only append
\* to the pending queue.
QueueNext ==
    \/ Reader
    \/ ChildExits
    \/ Consumer
    \/ set_size
    \/ legion_resize
    \/ legion_scroll_lines
    \/ legion_scroll_page_up
    \/ legion_scroll_page_down
    \/ legion_scroll_to_top
    \/ legion_scroll_to_bottom

\* As in FairSpec the reader thread keeps running and the executor keeps
\* polling the consumer task; the subprocess need not write anything more.
QueueSpec == Init /\ [][QueueNext]_vars /\ WF_vars(Reader) /\ WF_vars(Consumer)

(* --------------------- app: the pointer protocol ---------------------- *)

\* Pointer events handled over one run.
MaxPointer == 3

\* Option<String> / Option<Match> holding nothing.
NoUrl == "none"

NoMatch == [some |-> FALSE, start |-> 0, end |-> 0]

NoPoint == [some |-> FALSE, line |-> 0, col |-> 0]

\* The first grid line as the pointer model sees it: the hyperlink (OSC 8) of
\* each of its first cells.  Every other cell carries none.
PointerGrids == {<<"u1", "u1", "u2">>, <<"none", "u2", "u2">>}

\* Pixel positions tried: left of the bounds, over the first three cells of
\* the first line, and below the last line.
PointerPositions ==
    {[x |-> -1, y |-> 0], [x |-> 0, y |-> 0], [x |-> 8, y |-> 0], [x |-> 15, y |-> 0],
     [x |-> 0, y |-> 400]}

Buttons == {"Left", "Right"}

\* Terminal::pixel_to_grid_point
pixel_to_grid_point(position, last) ==
    LET bounds == last.terminal_bounds
        col    == position.x \div bounds.cell_width
        line   == position.y \div bounds.line_height IN
    IF position.x < 0 \/ position.y < 0 THEN NoPoint
    ELSE IF col < 0 \/ col >= num_columns(bounds) \/ line < 0 \/ line >= num_lines(bounds)
         THEN NoPoint
         ELSE [some |-> TRUE, line |-> line - last.display_offset, col |-> col]

\* grid.index(point).hyperlink()
hyperlink(grid, point) ==
    IF point.line = 0 /\ point.col + 1 \in DOMAIN grid THEN grid[point.col + 1] ELSE NoUrl

\* find_url_at_point, for a cell with an explicit hyperlink: the link and the
\* run of neighbouring cells that carry the same link
find_url_at_point(grid, point) ==
    LET link_ == hyperlink(grid, point) IN
    IF link_ = NoUrl THEN [some |-> FALSE, url |-> NoUrl, range |-> NoMatch]
    ELSE LET same(c) == hyperlink(grid, [point EXCEPT !.col = c]) = link_
             lo == CHOOSE a \in 0..point.col :
                      /\ \A c \in a..point.col : same(c)
                      /\ (a = 0 \/ ~same(a - 1))
             hi == CHOOSE b \in point.col..Len(grid) :
                      /\ \A c \in point.col..b : same(c)
                      /\ ~same(b + 1) IN
         [some |-> TRUE, url |-> link_, range |-> [some |-> TRUE, start |-> lo, end |-> hi]]

\* A mouse_up that opens whatever URL lies under the release: the variant the
\* click protocol must reject.
mouse_up_any_url(p, grid, last, button, position, platform) ==
    IF button # "Left" THEN [mouse_down_url |-> p.mouse_down_url, open |-> NoUrl, ret |-> FALSE]
    ELSE LET point == pixel_to_grid_point(position, last)
             up    == IF point.some THEN find_url_at_point(grid, point)
                      ELSE [some |-> FALSE, url |-> NoUrl, range |-> NoMatch] IN
         IF p.mouse_down_url # NoUrl /\ platform /\ point.some /\ up.some
         THEN [mouse_down_url |-> NoUrl, open |-> p.mouse_down_url, ret |-> TRUE]
         ELSE [mouse_down_url |-> NoUrl, open |-> NoUrl, ret |-> FALSE]

\* Terminal::mouse_down: the fields it leaves and what it returns
mouse_down(p, grid, last, button, position, platform) ==
    IF button # "Left" \/ ~platform
    THEN [mouse_down_url |-> p.mouse_down_url, hovered_hyperlink |-> NoMatch, ret |-> FALSE]
    ELSE LET point == pixel_to_grid_point(position, last)
             found == IF point.some THEN find_url_at_point(grid, point)
                      ELSE [some |-> FALSE, url |-> NoUrl, range |-> NoMatch] IN
         IF point.some /\ found.some
         THEN [mouse_down_url |-> found.url, hovered_hyperlink |-> found.range, ret |-> TRUE]
         ELSE [mouse_down_url |-> NoUrl, hovered_hyperlink |-> NoMatch, ret |-> FALSE]

\* Terminal::mouse_up: the recorded URL is taken, and OpenUrl is emitted when
\* the modifier is held and the URL under the release is the recorded one
mouse_up(p, grid, last, button, position, platform) ==
    IF button # "Left" THEN [mouse_down_url |-> p.mouse_down_url, open |-> NoUrl, ret |-> FALSE]
    ELSE LET point == pixel_to_grid_point(position, last)
             up    == IF point.some THEN find_url_at_point(grid, point)
                      ELSE [some |-> FALSE, url |-> NoUrl, range |-> NoMatch] IN
         IF /\ p.mouse_down_url # NoUrl
            /\ platform
            /\ point.some
            /\ up.some
            /\ up.url = p.mouse_down_url
         THEN [mouse_down_url |-> NoUrl, open |-> p.mouse_down_url, ret |-> TRUE]
         ELSE [mouse_down_url |-> NoUrl, open |-> NoUrl, ret |-> FALSE]

\* Terminal::mouse_move: the hover range it leaves
mouse_move(p, grid, last, position, platform) ==
    IF ~platform THEN NoMatch
    ELSE LET point == pixel_to_grid_point(position, last)
             found == IF point.some THEN find_url_at_point(grid, point)
                      ELSE [some |-> FALSE, url |-> NoUrl, range |-> NoMatch] IN
         IF point.some /\ found.some THEN found.range ELSE NoMatch

\* The pointer event handled last.
PointerEvent(ev, button, position, platform) ==
    [ev |-> ev, button |-> button, position |-> position, platform |-> platform]

\* The view hands a pointer event to the session.
PointerReady == pointer.pc = "ready" /\ pointer.n < MaxPointer

PointerPress ==
    /\ PointerReady
    /\ \E button \in Buttons, position \in PointerPositions, platform \in BOOLEAN :
         LET r == mouse_down(pointer, pointer.grid, last_content, button, position, platform) IN
         pointer' = [pointer EXCEPT !.mouse_down_url = r.mouse_down_url,
                                    !.hovered_hyperlink = r.hovered_hyperlink,
                                    !.ret = r.ret,
                                    !.pressed = IF button = "Left" /\ platform /\ r.ret
                                                THEN r.mouse_down_url ELSE NoUrl,
                                    !.last = PointerEvent("down", button, position, platform),
                                    !.n = @ + 1]
    /\ UNCHANGED <<sessionVars, keyst, link, metrics>>

PointerRelease ==
    /\ PointerReady
    /\ \E button \in Buttons, position \in PointerPositions, platform \in BOOLEAN :
         LET r == mouse_up(pointer, pointer.grid, last_content, button, position, platform) IN
         pointer' = [pointer EXCEPT !.mouse_down_url = r.mouse_down_url,
                                    !.ret = r.ret,
                                    !.opened = IF r.open # NoUrl THEN Append(@, r.open) ELSE @,
                                    !.last = PointerEvent("up", button, position, platform),
                                    !.n = @ + 1]
    /\ UNCHANGED <<sessionVars, keyst, link, metrics>>

PointerMove ==
    /\ PointerReady
    /\ \E position \in PointerPositions, platform \in BOOLEAN :
         pointer' = [pointer EXCEPT !.hovered_hyperlink =
                                        mouse_move(pointer, pointer.grid, last_content,
                                                   position, platform),
                                    !.last = PointerEvent("move", "none", position, platform),
                                    !.n = @ + 1]
    /\ UNCHANGED <<sessionVars, keyst, link, metrics>>

\* Output of the subprocess rewrites the line under the pointer.
PointerOutput ==
    /\ pointer.pc = "ready"
    /\ \E g \in PointerGrids \ {pointer.grid} : pointer' = [pointer EXCEPT !.grid = g]
    /\ UNCHANGED <<sessionVars, keyst, link, metrics>>

\* The app session after construction, with a line of hyperlinks on screen.
PointerInit ==
    /\ SessionInit
    /\ impl = "app"
    /\ keyst = NoKey
    /\ link = NoLink
    /\ metrics = NoMetrics
    /\ \E g \in PointerGrids :
         pointer = [pc |-> "ready", grid |-> g, mouse_down_url |-> NoUrl,
                    hovered_hyperlink |-> NoMatch, ret |-> FALSE, opened |-> <<>>,
                    pressed |-> NoUrl,
                    last |-> PointerEvent("none", "none", [x |-> 0, y |-> 0], FALSE),
                    n |-> 0]

PointerNext == PointerPress \/ PointerRelease \/ PointerMove \/ PointerOutput

PointerSpec == PointerInit /\ [][PointerNext]_vars

(* --------------------------- key encoding ----------------------------- *)

\* Option<Cow<str>> / Option<String>, the text as its UTF-8 bytes.
Some(b) == [some |-> TRUE, bytes |-> b]

None == [some |-> FALSE, bytes |-> <<>>]

\* Keystroke.key values tried: every key named in the encoder's tables, a
\* digit and a non-ASCII letter ("e-acute" stands for the one-character key
\* U+00E9).
KeyInputs ==
    {"tab", "escape", "enter", "backspace", "space", "home", "end", "pageup",
     "pagedown", "up", "down", "right", "left", "back", "insert", "delete",
     "f1", "f2", "f3", "f4", "f5", "f6", "f7", "f8", "f9", "f10", "f11",
     "f12", "f13", "f14", "f15", "f16", "f17", "f18", "f19", "f20", "a", "A",
     "b", "B", "c", "C", "d", "D", "e", "E", "f", "F", "g", "G", "h", "H",
     "i", "I", "j", "J", "k", "K", "l", "L", "m", "M", "n", "N", "o", "O",
     "p", "P", "q", "Q", "r", "R", "s", "S", "t", "T", "u", "U", "v", "V",
     "w", "W", "x", "X", "y", "Y", "z", "Z", "@", "[", "\\", "]", "^", "_",
     "?", "1", "e-acute"}

\* The keys that type a character.
PrintableKeys ==
    {"a", "A", "b", "B", "c", "C", "d", "D", "e", "E", "f", "F", "g", "G",
     "h", "H", "i", "I", "j", "J", "k", "K", "l", "L", "m", "M", "n", "N",
     "o", "O", "p", "P", "q", "Q", "r", "R", "s", "S", "t", "T", "u", "U",
     "v", "V", "w", "W", "x", "X", "y", "Y", "z", "Z", "@", "[", "\\", "]",
     "^", "_", "?", "1", "e-acute", "space", "enter", "tab"}

\* keystroke.key as its UTF-8 bytes
KeyBytes(key) ==
    CASE key = "tab" -> <<116, 97, 98>>
      [] key = "escape" -> <<101, 115, 99, 97, 112, 101>>
      [] key = "enter" -> <<101, 110, 116, 101, 114>>
      [] key = "backspace" -> <<98, 97, 99, 107, 115, 112, 97, 99, 101>>
      [] key = "space" -> <<115, 112, 97, 99, 101>>
      [] key = "home" -> <<104, 111, 109, 101>>
      [] key = "end" -> <<101, 110, 100>>
      [] key = "pageup" -> <<112, 97, 103, 101, 117, 112>>
      [] key = "pagedown" -> <<112, 97, 103, 101, 100, 111, 119, 110>>
      [] key = "up" -> <<117, 112>>
      [] key = "down" -> <<100, 111, 119, 110>>
      [] key = "right" -> <<114, 105, 103, 104, 116>>
      [] key = "left" -> <<108, 101, 102, 116>>
      [] key = "back" -> <<98, 97, 99, 107>>
      [] key = "insert" -> <<105, 110, 115, 101, 114, 116>>
      [] key = "delete" -> <<100, 101, 108, 101, 116, 101>>
      [] key = "f1" -> <<102, 49>>
      [] key = "f2" -> <<102, 50>>
      [] key = "f3" -> <<102, 51>>
      [] key = "f4" -> <<102, 52>>
      [] key = "f5" -> <<102, 53>>
      [] key = "f6" -> <<102, 54>>
      [] key = "f7" -> <<102, 55>>
      [] key = "f8" -> <<102, 56>>
      [] key = "f9" -> <<102, 57>>
      [] key = "f10" -> <<102, 49, 48>>
      [] key = "f11" -> <<102, 49, 49>>
      [] key = "f12" -> <<102, 49, 50>>
      [] key = "f13" -> <<102, 49, 51>>
      [] key = "f14" -> <<102, 49, 52>>
      [] key = "f15" -> <<102, 49, 53>>
      [] key = "f16" -> <<102, 49, 54>>
      [] key = "f17" -> <<102, 49, 55>>
      [] key = "f18" -> <<102, 49, 56>>
      [] key = "f19" -> <<102, 49, 57>>
      [] key = "f20" -> <<102, 50, 48>>
      [] key = "a" -> <<97>>
      [] key = "A" -> <<65>>
      [] key = "b" -> <<98>>
      [] key = "B" -> <<66>>
      [] key = "c" -> <<99>>
      [] key = "C" -> <<67>>
      [] key = "d" -> <<100>>
      [] key = "D" -> <<68>>
      [] key = "e" -> <<101>>
      [] key = "E" -> <<69>>
      [] key = "f" -> <<102>>
      [] key = "F" -> <<70>>
      [] key = "g" -> <<103>>
      [] key = "G" -> <<71>>
      [] key = "h" -> <<104>>
      [] key = "H" -> <<72>>
      [] key = "i" -> <<105>>
      [] key = "I" -> <<73>>
      [] key = "j" -> <<106>>
      [] key = "J" -> <<74>>
      [] key = "k" -> <<107>>
      [] key = "K" -> <<75>>
      [] key = "l" -> <<108>>
      [] key = "L" -> <<76>>
      [] key = "m" -> <<109>>
      [] key = "M" -> <<77>>
      [] key = "n" -> <<110>>
      [] key = "N" -> <<78>>
      [] key = "o" -> <<111>>
      [] key = "O" -> <<79>>
      [] key = "p" -> <<112>>
      [] key = "P" -> <<80>>
      [] key = "q" -> <<113>>
      [] key = "Q" -> <<81>>
      [] key = "r" -> <<114>>
      [] key = "R" -> <<82>>
      [] key = "s" -> <<115>>
      [] key = "S" -> <<83>>
      [] key = "t" -> <<116>>
      [] key = "T" -> <<84>>
      [] key = "u" -> <<117>>
      [] key = "U" -> <<85>>
      [] key = "v" -> <<118>>
      [] key = "V" -> <<86>>
      [] key = "w" -> <<119>>
      [] key = "W" -> <<87>>
      [] key = "x" -> <<120>>
      [] key = "X" -> <<88>>
      [] key = "y" -> <<121>>
      [] key = "Y" -> <<89>>
      [] key = "z" -> <<122>>
      [] key = "Z" -> <<90>>
      [] key = "@" -> <<64>>
      [] key = "[" -> <<91>>
      [] key = "\\" -> <<92>>
      [] key = "]" -> <<93>>
      [] key = "^" -> <<94>>
      [] key = "_" -> <<95>>
      [] key = "?" -> <<63>>
      [] key = "1" -> <<49>>
      [] key = "e-acute" -> <<195, 169>>

\* The character a printable key types.
TypedBytes(key) ==
    CASE key = "space" -> <<32>>
      [] key = "enter" -> <<10>>
      [] key = "tab"   -> <<9>>
      [] OTHER         -> KeyBytes(key)

\* Keystroke.key_char values tried for a key: none for a key that types
\* nothing; none, the empty text or the character for one that does.
KeyChars(key) ==
    IF key \in PrintableKeys THEN {None, Some(<<>>), Some(TypedBytes(key))} ELSE {None}

\* The key events tried.
Keystrokes ==
    UNION {{[key |-> k, alt |-> a, control |-> c, shift |-> s, platform |-> p,
             key_char |-> kc] :
               a \in BOOLEAN, c \in BOOLEAN, s \in BOOLEAN, p \in BOOLEAN,
               kc \in KeyChars(k)} : k \in KeyInputs}

\* TermMode, the two flags the encoder reads.
Modes == [ALT_SCREEN : BOOLEAN, APP_CURSOR : BOOLEAN]

\* A classification that does not know control held alone: the variant the
\* caret-notation property must reject.
AlacModifiers_no_ctrl(ks) ==
    CASE ~ks.alt /\ ~ks.control /\ ~ks.shift /\ ~ks.platform -> "None"
      [] ks.alt /\ ~ks.control /\ ~ks.shift /\ ~ks.platform  -> "Alt"
      [] ~ks.alt /\ ~ks.control /\ ks.shift /\ ~ks.platform  -> "Shift"
      [] ~ks.alt /\ ks.control /\ ks.shift /\ ~ks.platform   -> "CtrlShift"
      [] OTHER                                                -> "Other"

\* AlacModifiers::new (app: Modifiers::new)
AlacModifiers(ks) ==
    CASE ~ks.alt /\ ~ks.control /\ ~ks.shift /\ ~ks.platform -> "None"
      [] ks.alt /\ ~ks.control /\ ~ks.shift /\ ~ks.platform  -> "Alt"
      [] ~ks.alt /\ ks.control /\ ~ks.shift /\ ~ks.platform  -> "Ctrl"
      [] ~ks.alt /\ ~ks.control /\ ks.shift /\ ~ks.platform  -> "Shift"
      [] ~ks.alt /\ ks.control /\ ks.shift /\ ~ks.platform   -> "CtrlShift"
      [] OTHER                                                -> "Other"

\* AlacModifiers::any
any(modifiers) == modifiers # "None"

\* A modifier code with the bits of alt and control exchanged: the variant the
\* template property must reject.
modifier_code_swapped(ks) ==
    (IF ks.shift THEN 1 ELSE 0) + (IF ks.alt THEN 4 ELSE 0) + (IF ks.control THEN 2 ELSE 0) + 1

\* modifier_code: the three bits are or-ed, then one is added
modifier_code(ks) ==
    (IF ks.shift THEN 1 ELSE 0) + (IF ks.alt THEN 2 ELSE 0) + (IF ks.control THEN 4 ELSE 0) + 1

\* format!("{}", n) for a u32
RECURSIVE Decimal(_)
Decimal(n) == IF n < 10 THEN <<48 + n>> ELSE Decimal(n \div 10) \o <<48 + (n % 10)>>

\* A mode test that never finds the flag: the variant the application-cursor
\* property must reject.
contains_never(mode, flag) == FALSE

\* TermMode::contains
contains(mode, flag) == mode[flag]

\* to_esc_str: the table of manual bindings (first arm that matches; the arms
\* exclude one another).  The f13..f20 arms exist in legion only.
manual_esc_str(i, key, modifiers, mode) ==
    CASE key = "tab" /\ modifiers = "None" -> Some(<<9>>)
      [] key = "escape" /\ modifiers = "None" -> Some(<<27>>)
      [] key = "enter" /\ modifiers = "None" -> Some(<<13>>)
      [] key = "enter" /\ modifiers = "Shift" -> Some(<<10>>)
      [] key = "enter" /\ modifiers = "Alt" -> Some(<<27, 13>>)
      [] key = "backspace" /\ modifiers = "None" -> Some(<<127>>)
      [] key = "tab" /\ modifiers = "Shift" -> Some(<<27, 91, 90>>)
      [] key = "backspace" /\ modifiers = "Ctrl" -> Some(<<8>>)
      [] key = "backspace" /\ modifiers = "Alt" -> Some(<<27, 127>>)
      [] key = "backspace" /\ modifiers = "Shift" -> Some(<<127>>)
      [] key = "space" /\ modifiers = "Ctrl" -> Some(<<0>>)
      [] key = "home" /\ modifiers = "Shift" /\ contains(mode, "ALT_SCREEN") -> Some(<<27, 91, 49, 59, 50, 72>>)
      [] key = "end" /\ modifiers = "Shift" /\ contains(mode, "ALT_SCREEN") -> Some(<<27, 91, 49, 59, 50, 70>>)
      [] key = "pageup" /\ modifiers = "Shift" /\ contains(mode, "ALT_SCREEN") -> Some(<<27, 91, 53, 59, 50, 126>>)
      [] key = "pagedown" /\ modifiers = "Shift" /\ contains(mode, "ALT_SCREEN") -> Some(<<27, 91, 54, 59, 50, 126>>)
      [] key = "home" /\ modifiers = "None" /\ contains(mode, "APP_CURSOR") -> Some(<<27, 79, 72>>)
      [] key = "home" /\ modifiers = "None" /\ ~contains(mode, "APP_CURSOR") -> Some(<<27, 91, 72>>)
      [] key = "end" /\ modifiers = "None" /\ contains(mode, "APP_CURSOR") -> Some(<<27, 79, 70>>)
      [] key = "end" /\ modifiers = "None" /\ ~contains(mode, "APP_CURSOR") -> Some(<<27, 91, 70>>)
      [] key = "up" /\ modifiers = "None" /\ contains(mode, "APP_CURSOR") -> Some(<<27, 79, 65>>)
      [] key = "up" /\ modifiers = "None" /\ ~contains(mode, "APP_CURSOR") -> Some(<<27, 91, 65>>)
      [] key = "down" /\ modifiers = "None" /\ contains(mode, "APP_CURSOR") -> Some(<<27, 79, 66>>)
      [] key = "down" /\ modifiers = "None" /\ ~contains(mode, "APP_CURSOR") -> Some(<<27, 91, 66>>)
      [] key = "right" /\ modifiers = "None" /\ contains(mode, "APP_CURSOR") -> Some(<<27, 79, 67>>)
      [] key = "right" /\ modifiers = "None" /\ ~contains(mode, "APP_CURSOR") -> Some(<<27, 91, 67>>)
      [] key = "left" /\ modifiers = "None" /\ contains(mode, "APP_CURSOR") -> Some(<<27, 79, 68>>)
      [] key = "left" /\ modifiers = "None" /\ ~contains(mode, "APP_CURSOR") -> Some(<<27, 91, 68>>)
      [] key = "back" /\ modifiers = "None" -> Some(<<127>>)
      [] key = "insert" /\ modifiers = "None" -> Some(<<27, 91, 50, 126>>)
      [] key = "delete" /\ modifiers = "None" -> Some(<<27, 91, 51, 126>>)
      [] key = "pageup" /\ modifiers = "None" -> Some(<<27, 91, 53, 126>>)
      [] key = "pagedown" /\ modifiers = "None" -> Some(<<27, 91, 54, 126>>)
      [] key = "f1" /\ modifiers = "None" -> Some(<<27, 79, 80>>)
      [] key = "f2" /\ modifiers = "None" -> Some(<<27, 79, 81>>)
      [] key = "f3" /\ modifiers = "None" -> Some(<<27, 79, 82>>)
      [] key = "f4" /\ modifiers = "None" -> Some(<<27, 79, 83>>)
      [] key = "f5" /\ modifiers = "None" -> Some(<<27, 91, 49, 53, 126>>)
      [] key = "f6" /\ modifiers = "None" -> Some(<<27, 91, 49, 55, 126>>)
      [] key = "f7" /\ modifiers = "None" -> Some(<<27, 91, 49, 56, 126>>)
      [] key = "f8" /\ modifiers = "None" -> Some(<<27, 91, 49, 57, 126>>)
      [] key = "f9" /\ modifiers = "None" -> Some(<<27, 91, 50, 48, 126>>)
      [] key = "f10" /\ modifiers = "None" -> Some(<<27, 91, 50, 49, 126>>)
      [] key = "f11" /\ modifiers = "None" -> Some(<<27, 91, 50, 51, 126>>)
      [] key = "f12" /\ modifiers = "None" -> Some(<<27, 91, 50, 52, 126>>)
      [] key = "f13" /\ modifiers = "None" /\ i = "legion" -> Some(<<27, 91, 50, 53, 126>>)
      [] key = "f14" /\ modifiers = "None" /\ i = "legion" -> Some(<<27, 91, 50, 54, 126>>)
      [] key = "f15" /\ modifiers = "None" /\ i = "legion" -> Some(<<27, 91, 50, 56, 126>>)
      [] key = "f16" /\ modifiers = "None" /\ i = "legion" -> Some(<<27, 91, 50, 57, 126>>)
      [] key = "f17" /\ modifiers = "None" /\ i = "legion" -> Some(<<27, 91, 51, 49, 126>>)
      [] key = "f18" /\ modifiers = "None" /\ i = "legion" -> Some(<<27, 91, 51, 50, 126>>)
      [] key = "f19" /\ modifiers = "None" /\ i = "legion" -> Some(<<27, 91, 51, 51, 126>>)
      [] key = "f20" /\ modifiers = "None" /\ i = "legion" -> Some(<<27, 91, 51, 52, 126>>)
      [] key = "a" /\ modifiers = "Ctrl" -> Some(<<1>>)
      [] key = "A" /\ modifiers = "CtrlShift" -> Some(<<1>>)
      [] key = "b" /\ modifiers = "Ctrl" -> Some(<<2>>)
      [] key = "B" /\ modifiers = "CtrlShift" -> Some(<<2>>)
      [] key = "c" /\ modifiers = "Ctrl" -> Some(<<3>>)
      [] key = "C" /\ modifiers = "CtrlShift" -> Some(<<3>>)
      [] key = "d" /\ modifiers = "Ctrl" -> Some(<<4>>)
      [] key = "D" /\ modifiers = "CtrlShift" -> Some(<<4>>)
      [] key = "e" /\ modifiers = "Ctrl" -> Some(<<5>>)
      [] key = "E" /\ modifiers = "CtrlShift" -> Some(<<5>>)
      [] key = "f" /\ modifiers = "Ctrl" -> Some(<<6>>)
      [] key = "F" /\ modifiers = "CtrlShift" -> Some(<<6>>)
      [] key = "g" /\ modifiers = "Ctrl" -> Some(<<7>>)
      [] key = "G" /\ modifiers = "CtrlShift" -> Some(<<7>>)
      [] key = "h" /\ modifiers = "Ctrl" -> Some(<<8>>)
      [] key = "H" /\ modifiers = "CtrlShift" -> Some(<<8>>)
      [] key = "i" /\ modifiers = "Ctrl" -> Some(<<9>>)
      [] key = "I" /\ modifiers = "CtrlShift" -> Some(<<9>>)
      [] key = "j" /\ modifiers = "Ctrl" -> Some(<<10>>)
      [] key = "J" /\ modifiers = "CtrlShift" -> Some(<<10>>)
      [] key = "k" /\ modifiers = "Ctrl" -> Some(<<11>>)
      [] key = "K" /\ modifiers = "CtrlShift" -> Some(<<11>>)
      [] key = "l" /\ modifiers = "Ctrl" -> Some(<<12>>)
      [] key = "L" /\ modifiers = "CtrlShift" -> Some(<<12>>)
      [] key = "m" /\ modifiers = "Ctrl" -> Some(<<13>>)
      [] key = "M" /\ modifiers = "CtrlShift" -> Some(<<13>>)
      [] key = "n" /\ modifiers = "Ctrl" -> Some(<<14>>)
      [] key = "N" /\ modifiers = "CtrlShift" -> Some(<<14>>)
      [] key = "o" /\ modifiers = "Ctrl" -> Some(<<15>>)
      [] key = "O" /\ modifiers = "CtrlShift" -> Some(<<15>>)
      [] key = "p" /\ modifiers = "Ctrl" -> Some(<<16>>)
      [] key = "P" /\ modifiers = "CtrlShift" -> Some(<<16>>)
      [] key = "q" /\ modifiers = "Ctrl" -> Some(<<17>>)
      [] key = "Q" /\ modifiers = "CtrlShift" -> Some(<<17>>)
      [] key = "r" /\ modifiers = "Ctrl" -> Some(<<18>>)
      [] key = "R" /\ modifiers = "CtrlShift" -> Some(<<18>>)
      [] key = "s" /\ modifiers = "Ctrl" -> Some(<<19>>)
      [] key = "S" /\ modifiers = "CtrlShift" -> Some(<<19>>)
      [] key = "t" /\ modifiers = "Ctrl" -> Some(<<20>>)
      [] key = "T" /\ modifiers = "CtrlShift" -> Some(<<20>>)
      [] key = "u" /\ modifiers = "Ctrl" -> Some(<<21>>)
      [] key = "U" /\ modifiers = "CtrlShift" -> Some(<<21>>)
      [] key = "v" /\ modifiers = "Ctrl" -> Some(<<22>>)
      [] key = "V" /\ modifiers = "CtrlShift" -> Some(<<22>>)
      [] key = "w" /\ modifiers = "Ctrl" -> Some(<<23>>)
      [] key = "W" /\ modifiers = "CtrlShift" -> Some(<<23>>)
      [] key = "x" /\ modifiers = "Ctrl" -> Some(<<24>>)
      [] key = "X" /\ modifiers = "CtrlShift" -> Some(<<24>>)
      [] key = "y" /\ modifiers = "Ctrl" -> Some(<<25>>)
      [] key = "Y" /\ modifiers = "CtrlShift" -> Some(<<25>>)
      [] key = "z" /\ modifiers = "Ctrl" -> Some(<<26>>)
      [] key = "Z" /\ modifiers = "CtrlShift" -> Some(<<26>>)
      [] key = "@" /\ modifiers = "Ctrl" -> Some(<<0>>)
      [] key = "[" /\ modifiers = "Ctrl" -> Some(<<27>>)
      [] key = "\\" /\ modifiers = "Ctrl" -> Some(<<28>>)
      [] key = "]" /\ modifiers = "Ctrl" -> Some(<<29>>)
      [] key = "^" /\ modifiers = "Ctrl" -> Some(<<30>>)
      [] key = "_" /\ modifiers = "Ctrl" -> Some(<<31>>)
      [] key = "?" /\ modifiers = "Ctrl" -> Some(<<127>>)
      [] OTHER -> None

\* to_esc_str: the modifier templates listed before the modifier_code == 2 arm
modified_esc_str_first(i, key, code) ==
    CASE key = "up" -> Some(<<27, 91, 49, 59>> \o Decimal(code) \o <<65>>)
      [] key = "down" -> Some(<<27, 91, 49, 59>> \o Decimal(code) \o <<66>>)
      [] key = "right" -> Some(<<27, 91, 49, 59>> \o Decimal(code) \o <<67>>)
      [] key = "left" -> Some(<<27, 91, 49, 59>> \o Decimal(code) \o <<68>>)
      [] key = "f1" -> Some(<<27, 91, 49, 59>> \o Decimal(code) \o <<80>>)
      [] key = "f2" -> Some(<<27, 91, 49, 59>> \o Decimal(code) \o <<81>>)
      [] key = "f3" -> Some(<<27, 91, 49, 59>> \o Decimal(code) \o <<82>>)
      [] key = "f4" -> Some(<<27, 91, 49, 59>> \o Decimal(code) \o <<83>>)
      [] key = "f5" -> Some(<<27, 91, 49, 53, 59>> \o Decimal(code) \o <<126>>)
      [] key = "f6" -> Some(<<27, 91, 49, 55, 59>> \o Decimal(code) \o <<126>>)
      [] key = "f7" -> Some(<<27, 91, 49, 56, 59>> \o Decimal(code) \o <<126>>)
      [] key = "f8" -> Some(<<27, 91, 49, 57, 59>> \o Decimal(code) \o <<126>>)
      [] key = "f9" -> Some(<<27, 91, 50, 48, 59>> \o Decimal(code) \o <<126>>)
      [] key = "f10" -> Some(<<27, 91, 50, 49, 59>> \o Decimal(code) \o <<126>>)
      [] key = "f11" -> Some(<<27, 91, 50, 51, 59>> \o Decimal(code) \o <<126>>)
      [] key = "f12" -> Some(<<27, 91, 50, 52, 59>> \o Decimal(code) \o <<126>>)
      [] key = "f13" /\ i = "legion" -> Some(<<27, 91, 50, 53, 59>> \o Decimal(code) \o <<126>>)
      [] key = "f14" /\ i = "legion" -> Some(<<27, 91, 50, 54, 59>> \o Decimal(code) \o <<126>>)
      [] key = "f15" /\ i = "legion" -> Some(<<27, 91, 50, 56, 59>> \o Decimal(code) \o <<126>>)
      [] key = "f16" /\ i = "legion" -> Some(<<27, 91, 50, 57, 59>> \o Decimal(code) \o <<126>>)
      [] key = "f17" /\ i = "legion" -> Some(<<27, 91, 51, 49, 59>> \o Decimal(code) \o <<126>>)
      [] key = "f18" /\ i = "legion" -> Some(<<27, 91, 51, 50, 59>> \o Decimal(code) \o <<126>>)
      [] key = "f19" /\ i = "legion" -> Some(<<27, 91, 51, 51, 59>> \o Decimal(code) \o <<126>>)
      [] key = "f20" /\ i = "legion" -> Some(<<27, 91, 51, 52, 59>> \o Decimal(code) \o <<126>>)
      [] OTHER -> None

\* to_esc_str: the modifier templates listed after the modifier_code == 2 arm
modified_esc_str_rest(key, code) ==
    CASE key = "insert" -> Some(<<27, 91, 50, 59>> \o Decimal(code) \o <<126>>)
      [] key = "pageup" -> Some(<<27, 91, 53, 59>> \o Decimal(code) \o <<126>>)
      [] key = "pagedown" -> Some(<<27, 91, 54, 59>> \o Decimal(code) \o <<126>>)
      [] key = "end" -> Some(<<27, 91, 49, 59>> \o Decimal(code) \o <<70>>)
      [] key = "home" -> Some(<<27, 91, 49, 59>> \o Decimal(code) \o <<72>>)
      [] OTHER -> None

\* A template match without the modifier_code == 2 arm: the variant the
\* shift-navigation property must reject.
modified_esc_str_no_suppress(i, key, code) ==
    IF modified_esc_str_first(i, key, code).some THEN modified_esc_str_first(i, key, code)
    ELSE modified_esc_str_rest(key, code)

\* to_esc_str: the match on the key under a held modifier, in arm order
modified_esc_str(i, key, code) ==
    IF modified_esc_str_first(i, key, code).some THEN modified_esc_str_first(i, key, code)
    ELSE IF code = 2 THEN None
    ELSE modified_esc_str_rest(key, code)

\* str::is_ascii
is_ascii(b) == \A n \in DOMAIN b : b[n] < 128

\* str::to_ascii_uppercase
to_ascii_uppercase(b) == [n \in DOMAIN b |-> IF b[n] >= 97 /\ b[n] <= 122 THEN b[n] - 32 ELSE b[n]]

\* to_esc_str: the ESC prefix for alt held as meta
alt_meta(ks, modifiers) ==
    LET is_alt_lowercase_ascii == modifiers = "Alt" /\ is_ascii(KeyBytes(ks.key))
        is_alt_uppercase_ascii == ks.alt /\ ks.shift /\ is_ascii(KeyBytes(ks.key)) IN
    IF is_alt_lowercase_ascii \/ is_alt_uppercase_ascii
    THEN Some(<<27>> \o (IF is_alt_uppercase_ascii THEN to_ascii_uppercase(KeyBytes(ks.key))
                          ELSE KeyBytes(ks.key)))
    ELSE None

\* to_esc_str: legion's last rule, the literal text of a plain or shifted key
plain_char(i, ks, modifiers) ==
    IF i = "legion" /\ modifiers \in {"None", "Shift"} /\ ks.key_char.some /\ ks.key_char.bytes # <<>>
    THEN Some(ks.key_char.bytes)
    ELSE None

\* to_esc_str(keystroke, mode, option_as_meta) of implementation i, built for
\* macOS or not
to_esc_str(i, ks, mode, option_as_meta, macos) ==
    LET modifiers == AlacModifiers(ks)
        manual    == manual_esc_str(i, ks.key, modifiers, mode)
        modified  == IF any(modifiers) THEN modified_esc_str(i, ks.key, modifier_code(ks))
                     ELSE None
        meta      == IF ~macos \/ option_as_meta THEN alt_meta(ks, modifiers) ELSE None IN
    IF manual.some THEN manual
    ELSE IF modified.some THEN modified
    ELSE IF meta.some THEN meta
    ELSE plain_char(i, ks, modifiers)

\* Notifier::notify as write_to_pty (legion) and input (app) call it: the bytes
\* are sent to the reader loop unless there are none.
write_to_pty(w, bytes) == IF bytes = <<>> THEN w ELSE Append(w, bytes)

\* What a key handler did: its return value, the requests it queued and the
\* byte strings it wrote.
KeyResult(ret, queued, written) == [ret |-> ret, queued |-> queued, written |-> written]

\* Terminal::try_keystroke of implementation i with snapshot mode `mode`.
\* legion passes the caller's option_as_meta, app passes false.
try_keystroke(i, ks, mode, option_as_meta, macos) ==
    LET esc == to_esc_str(i, ks, mode, option_as_meta, macos) IN
    IF i = "legion"
    THEN IF esc.some
         THEN KeyResult(TRUE, input(<<>>), write_to_pty(<<>>, esc.bytes))
         ELSE KeyResult(FALSE, <<>>, <<>>)
    ELSE IF esc.some
         THEN KeyResult(TRUE, <<>>, write_to_pty(<<>>, esc.bytes))
         ELSE IF ks.key_char.some
         THEN KeyResult(TRUE, <<>>, write_to_pty(<<>>, ks.key_char.bytes))
         ELSE IF Len(KeyBytes(ks.key)) = 1 /\ ~ks.control /\ ~ks.alt
         THEN KeyResult(TRUE, <<>>, write_to_pty(<<>>, KeyBytes(ks.key)))
         ELSE KeyResult(FALSE, <<>>, <<>>)

\* TerminalView::on_key_down of implementation i, the view holding a session.
\* ret is the value of `handled` (FALSE when try_keystroke was not reached).
on_key_down(i, ks, mode, macos) ==
    IF i = "legion"
    THEN IF ks.shift /\ ks.key = "pageup" THEN KeyResult(FALSE, scroll_page_up(<<>>), <<>>)
         ELSE IF ks.shift /\ ks.key = "pagedown" THEN KeyResult(FALSE, scroll_page_down(<<>>), <<>>)
         ELSE IF ks.shift /\ ks.key = "home" THEN KeyResult(FALSE, scroll_to_top(<<>>), <<>>)
         ELSE IF ks.shift /\ ks.key = "end" THEN KeyResult(FALSE, scroll_to_bottom(<<>>), <<>>)
         ELSE LET handled == try_keystroke(i, ks, mode, FALSE, macos) IN
              IF handled.ret THEN handled
              ELSE IF ks.key_char.some /\ ks.key_char.bytes # <<>>
              THEN KeyResult(FALSE, input(<<>>), write_to_pty(<<>>, ks.key_char.bytes))
              ELSE handled
    ELSE try_keystroke(i, ks, mode, FALSE, macos)

\* A key event before anything handled it.
KeyEvent(ks, mode, macos) ==
    [pc |-> "in", ks |-> ks, mode |-> mode, macos |-> macos, esc |-> None,
     ret |-> FALSE, queued |-> <<>>, written |-> <<>>]

\* The key event after a handler with result r; esc is what the encoder makes
\* of the same event.
KeyDone(pc, r) ==
    [keyst EXCEPT !.pc = pc,
                  !.esc = to_esc_str(impl, keyst.ks, keyst.mode, FALSE, keyst.macos),
                  !.ret = r.ret, !.queued = r.queued, !.written = r.written]

\* The encoder alone is applied to the event.
KeyEncode ==
    /\ keyst.pc = "in"
    /\ keyst' = KeyDone("encoded", KeyResult(FALSE, <<>>, <<>>))
    /\ UNCHANGED <<sessionVars, pointer, link, metrics>>

\* The session's try_keystroke is called with the event.
KeyTry ==
    /\ keyst.pc = "in"
    /\ keyst' = KeyDone("tried", try_keystroke(impl, keyst.ks, keyst.mode, FALSE, keyst.macos))
    /\ UNCHANGED <<sessionVars, pointer, link, metrics>>

\* The view's key-down handler is called with the event.
KeyDown ==
    /\ keyst.pc = "in"
    /\ keyst' = KeyDone("view", on_key_down(impl, keyst.ks, keyst.mode, keyst.macos))
    /\ UNCHANGED <<sessionVars, pointer, link, metrics>>

KeyInit ==
    /\ SessionInit
    /\ pointer = NoPointer
    /\ link = NoLink
    /\ metrics = NoMetrics
    /\ \E ks \in Keystrokes, mode \in Modes, macos \in BOOLEAN :
         keyst = KeyEvent(ks, mode, macos)

KeyNext == KeyEncode \/ KeyTry \/ KeyDown

KeySpec == KeyInit /\ [][KeyNext]_vars

(* ----------------------------- dimensions ----------------------------- *)

\* Pixel sizes tried for a bounds rectangle, whole pixels.
PixelInputs == {-41, -1, 0, 1, 19, 20, 41, 300}

\* Cell metrics tried (line height, cell width), whole pixels.
MetricInputs == {-8, 0, 1, 7, 8, 14, 20}

\* num_lines and num_columns are taken of the bounds in hand.
Measure ==
    /\ metrics.pc = "given"
    /\ metrics' = [metrics EXCEPT !.pc = "measured",
                                  !.rows = num_lines(metrics.bounds),
                                  !.columns = num_columns(metrics.bounds)]
    /\ UNCHANGED <<sessionVars, keyst, pointer, link>>

\* Any bounds a caller may hand to resize.
BoundsInit ==
    /\ SessionInit
    /\ keyst = NoKey
    /\ pointer = NoPointer
    /\ link = NoLink
    /\ \E h \in PixelInputs, w \in PixelInputs, lh \in MetricInputs, cw \in MetricInputs :
         metrics = [pc |-> "given", bounds |-> Bounds(h, lh, w, cw), rows |-> 0, columns |-> 0]

BoundsNext == Measure

BoundsSpec == BoundsInit /\ [][BoundsNext]_vars

(* ---------------------------- URL trimming ---------------------------- *)

\* The longest text tried after the scheme of a matched URL.
MaxTail == 3

\* The number of columns of the grid the match lies on.
GridCols == 5

\* URL_REGEX: two of its schemes, as characters.
Schemes == {<<"h", "t", "t", "p", ":", "/", "/">>, <<"s", "s", "h", ":">>}

\* URL_REGEX: characters its class accepts after the scheme, the ones the
\* trimming looks at and one it does not.
UrlChars == {"x", ".", ",", ":", ";", "(", ")"}

\* The texts after the scheme, one to MaxTail characters long.
UrlTails == UNION {[1..n -> UrlChars] : n \in 1..MaxTail}

\* The matched texts tried: a scheme and a tail, and "http://example.com).".
MatchedTexts ==
    {s \o t : s \in Schemes, t \in UrlTails}
      \cup {<<"h", "t", "t", "p", ":", "/", "/", "e", "x", "a", "m", "p", "l", "e",
              ".", "c", "o", "m", ")", ".">>}

\* index::Point: a line and a column of the grid.
Point(line, column) == [line |-> line, column |-> column]

\* The cells before a point, in reading order, from the topmost line.
Offset(p) == p.line * GridCols + p.column

\* The point n cells after the start of the topmost line.
PointAt(n) == Point(n \div GridCols, n % GridCols)

\* search::Match, an inclusive range of points.
Match(start, end) == [start |-> start, end |-> end]

\* Point::sub(dimensions, Boundary::Grid, rhs) on a grid with no scrollback:
\* the line delta saturates, the column wraps, and a line above the topmost
\* one is clamped to the grid's first cell.
PointSub(p, rhs) ==
    LET num        == IF rhs + GridCols - 1 >= p.column THEN rhs + GridCols - 1 - p.column
                      ELSE 0
        line_delta == num \div GridCols
        column     == (GridCols + p.column - (rhs % GridCols)) % GridCols IN
    IF p.line - line_delta < 0 THEN Point(0, 0) ELSE Point(p.line - line_delta, column)

\* sanitize_url_punctuation: the loop that pops trailing characters. The count
\* of opening parentheses is the one taken before the loop.
RECURSIVE TrimTrailing(_, _, _, _)
TrimTrailing(sanitized_url, open_parens, close_parens, chars_trimmed) ==
    IF sanitized_url = <<>>
    THEN [url |-> sanitized_url, chars_trimmed |-> chars_trimmed]
    ELSE LET last_char == sanitized_url[Len(sanitized_url)]
             rest      == SubSeq(sanitized_url, 1, Len(sanitized_url) - 1) IN
         IF last_char \in {".", ",", ":", ";"} \/ last_char = "("
         THEN TrimTrailing(rest, open_parens, close_parens, chars_trimmed + 1)
         ELSE IF last_char = ")" /\ close_parens > open_parens
         THEN TrimTrailing(rest, open_parens, close_parens - 1, chars_trimmed + 1)
         ELSE [url |-> sanitized_url, chars_trimmed |-> chars_trimmed]

\* sanitize_url_punctuation(url, url_match, term)
sanitize_url_punctuation(url, url_match) ==
    LET t == TrimTrailing(url, Count(url, "("), Count(url, ")"), 0) IN
    IF t.chars_trimmed > 0
    THEN [url |-> t.url,
          url_match |-> Match(url_match.start, PointSub(url_match.end, t.chars_trimmed))]
    ELSE [url |-> t.url, url_match |-> url_match]

\* find_url_at_point, regex branch: the matched text is read from the grid and
\* trimmed.
SanitizeMatch ==
    /\ link.pc = "matched"
    /\ link' = [link EXCEPT !.pc = "sanitized",
                            !.out = sanitize_url_punctuation(link.url, link.url_match)]
    /\ UNCHANGED <<sessionVars, keyst, pointer, metrics>>

\* Match::contains(&point): the point lies between the ends of the range, in
\* reading order.
contains_point(url_match, point) ==
    Offset(url_match.start) <= Offset(point) /\ Offset(point) <= Offset(url_match.end)

\* A regex match of one of the texts, starting anywhere on the first two
\* lines and running on over wrapped lines, found for a point it contains.
UrlInit ==
    /\ SessionInit
    /\ impl = "app"
    /\ keyst = NoKey
    /\ pointer = NoPointer
    /\ metrics = NoMetrics
    /\ \E url \in MatchedTexts, s \in 0..(2 * GridCols - 1) :
         \E point \in {PointAt(n) : n \in s..(s + Len(url) - 1)} :
             /\ contains_point(Match(PointAt(s), PointAt(s + Len(url) - 1)), point)
             /\ link = [pc |-> "matched", point |-> point, url |-> url,
                        url_match |-> Match(PointAt(s), PointAt(s + Len(url) - 1)),
                        out |-> [url |-> url,
                                 url_match |-> Match(PointAt(s), PointAt(s + Len(url) - 1))]]

UrlNext == SanitizeMatch

UrlSpec == UrlInit /\ [][UrlNext]_vars

(* ------------------------------- claims ------------------------------- *)

Emitted(e) == \E i \in DOMAIN emitted : emitted[i] = e

\* C1: every snapshot stored by a sync is read from one engine state: its
\* cursor stands after its cells, its mode is the one those cells switched to,
\* and its display offset lies within the scrollback those cells filled.
C1_SnapshotNotTorn ==
    /\ last_content.cursor = Len(last_content.cells)
    /\ last_content.mode = (Count(last_content.cells, "alt") % 2 = 1)
    /\ last_content.display_offset <= Count(last_content.cells, "lf")

\* A snapshot taken in alternate-screen mode while the reader loop, which has
\* the lock again, is halfway through a later chunk.
C1_Witness ==
    /\ last_content.cells # <<>>
    /\ last_content.mode
    /\ readerPc = "mid"
    /\ Len(term.cells) > Len(last_content.cells)

C3_StopsAfterClose ==
    \A i \in DOMAIN dispatched : dispatched[i].e = "Exit" => i = Len(dispatched)

\* C4: while the session is alive the events dispatched, followed by those
\* still in the channel, are exactly the events sent, in the order sent; and a
\* producer about to send can always send, whatever the channel holds.
C4_FifoExactlyOnce ==
    /\ alive => sent = dispatched \o events_rx
    /\ readerPc = "mid" => ENABLED ReaderFeedRest
    /\ (readerPc = "locked" /\ rProcessed > 0) => ENABLED ReaderUnlock
    /\ (readerPc = "exit_wait" /\ Head(next) = "reader" /\ data = "none") => ENABLED ReaderExit

\* Two different events were dispatched in the order sent while more wait in
\* the channel behind them.
C4_Witness ==
    /\ alive
    /\ Len(dispatched) >= 2
    /\ dispatched[1].e = "Bell"
    /\ dispatched[2].e = "Wakeup"
    /\ Len(events_rx) >= 2

\* C5: the snapshot stored when a Wakeup was handled holds at least the output
\* the engine held when that Wakeup was sent.
C5_ResyncFresh == Len(last_content.cells) >= wakeDone

\* A Wakeup sent after the first chunk was handled when the engine held more:
\* the snapshot shows the later state.
C5_Witness ==
    /\ wakeDone = 1
    /\ Len(last_content.cells) = 2
    /\ uiPc = "idle"

\* C6: once the session is torn down the reader loop stops.
C6_TeardownStopsReader == (~alive) ~> (readerPc = "stopped")

\* C7: once the subprocess has exited and the session stays alive,
\* CloseTerminal is emitted to the UI layer.
C7_ExitReported == (alive /\ child = "exited") ~> (~alive \/ Emitted("CloseTerminal"))

\* The exit was reported on a live session.
C7_Witness == alive /\ child = "exited" /\ Emitted("CloseTerminal") /\ readerPc = "stopped"

\* C8: the first snapshot synced after an input, with no scroll request after
\* that input, shows the live position.
C8_InputScrollsToLive == obs.inputSync => last_content.display_offset = 0

\* Such a sync replaced a snapshot that was scrolled back.
C8_Witness == obs.inputSync /\ obs.prevOffset > 0 /\ last_content.display_offset = 0

ScrollOps ==
    {"scroll_lines", "scroll_page_up", "scroll_page_down", "scroll_to_top", "scroll_to_bottom"}

\* The request a scroll call stands for.
ScrollOf(op) ==
    CASE op.op = "scroll_lines"     -> Scroll(Delta(op.n))
      [] op.op = "scroll_page_up"   -> Scroll(PageUp)
      [] op.op = "scroll_page_down" -> Scroll(PageDown)
      [] op.op = "scroll_to_top"    -> Scroll(Top)
      [] OTHER                      -> Scroll(Bottom)

\* The engine after the requests q[i..] were applied one after the other.
RECURSIVE AppliedInOrder(_, _, _)
AppliedInOrder(q, i, t) ==
    IF i > Len(q) THEN t
    ELSE AppliedInOrder(q, i + 1,
            CASE q[i].k = "Resize" -> TermResize(t, q[i].b)
              [] q[i].k = "Scroll" -> ScrollDisplay(t, q[i].s)
              [] OTHER             -> t)

\* A step that issues a scroll request.
ScrollStep == ops' = ops + 1 /\ lastOp'.op \in ScrollOps

\* A step in which legion's sync runs with the lock held.
SyncStep == impl = "legion" /\ uiPc = "locked" /\ uiCont = "sync" /\ uiPc' = "idle"

\* The sync half of C9: the sync holds the lock, applies the pending requests
\* in the order issued and leaves the queue empty.
SyncAppliesInOrder ==
    SyncStep => /\ data = "ui"
                /\ term' = AppliedInOrder(events, 1, term)
                /\ events' = <<>>

\* C9 as claimed: every scroll request leaves the engine and the snapshot alone
\* and is appended to the pending queue; the next sync applies the queue.
C9_ScrollQueued ==
    [][/\ ScrollStep => /\ UNCHANGED <<term, last_content>>
                        /\ events' = Append(events, ScrollOf(lastOp'))
       /\ SyncAppliesInOrder]_vars

\* C9 as amended: a scroll_lines request of zero lines is dropped.
C9_ScrollQueuedUnlessZero ==
    [][/\ ScrollStep => /\ UNCHANGED <<term, last_content>>
                        /\ events' = IF lastOp'.op = "scroll_lines" /\ lastOp'.n = 0
                                     THEN events
                                     ELSE Append(events, ScrollOf(lastOp'))
       /\ SyncAppliesInOrder]_vars

\* A sync applied two pending requests whose order shows: the view is scrolled
\* back, which a to-top applied before a to-bottom would not leave.
C9_Witness ==
    /\ impl = "legion"
    /\ obs.drained = 2
    /\ obs.prevOffset = 0
    /\ last_content.display_offset > 0
    /\ events = <<>>

NoResizePending == \A i \in DOMAIN events : events[i].k # "Resize"

SizesAre(d) ==
    /\ term.lines = num_lines(d)
    /\ term.cols = num_columns(d)
    /\ last_content.terminal_bounds = d

\* C10 as claimed: after resize(d) returned, the engine grid, the window size
\* sent and the snapshot's dimensions are those of d.
C10_ResizeApplied ==
    (alive /\ obs.resized # NoBounds) =>
        /\ SizesAre(obs.resized)
        /\ ptySize = [num_lines |-> num_lines(obs.resized),
                      num_cols |-> num_columns(obs.resized)]

\* C10 as amended: in legion only once no resize is pending any more, and the
\* window size sent holds the rows and columns cut to 16 bits.
C10_ResizeAppliedAtSync ==
    (alive /\ obs.resized # NoBounds /\ NoResizePending) =>
        /\ SizesAre(obs.resized)
        /\ ptySize = [num_lines |-> num_lines(obs.resized) % U16,
                      num_cols |-> num_columns(obs.resized) % U16]

\* A queued resize was applied by a later sync.
C10_Witness ==
    /\ impl = "legion"
    /\ alive
    /\ obs.resized # NoBounds
    /\ obs.drained >= 1
    /\ NoResizePending
    /\ term.lines = num_lines(obs.resized)

\* What one resize(d) leaves once applied, and what two in a row leave: the
\* app applies each call at once, legion queues them and applies them at the
\* next sync.
ResizedOnce(d) ==
    IF impl = "app"
    THEN LET a == set_size_body(term, ptySize, last_content, d) IN
         [q |-> events, term |-> a.term, pty |-> a.pty, last |-> a.last]
    ELSE sync(resize(events, d), term, ptySize, last_content)

ResizedTwice(d) ==
    IF impl = "app"
    THEN LET a == set_size_body(term, ptySize, last_content, d)
             b == set_size_body(a.term, a.pty, a.last, d) IN
         [q |-> events, term |-> b.term, pty |-> b.pty, last |-> b.last]
    ELSE sync(resize(resize(events, d), d), term, ptySize, last_content)

C12_LockOnlyInSync == data = "ui" => uiCont = "sync"

\* A step in which a sync of either implementation runs with the lock held.
AnySyncStep == uiPc = "locked" /\ uiCont = "sync" /\ uiPc' = "idle"

\* A step in which the app's set_size runs with the lock held.
SetSizeStep == impl = "app" /\ uiPc = "locked" /\ uiCont = "set_size" /\ uiPc' = "idle"

\* C13 as claimed: the last snapshot changes only in a sync.
C13_SnapshotFrame == [][last_content' # last_content => AnySyncStep]_vars

\* C13 as amended: the last snapshot changes only in a sync, except that the
\* app's set_size sets the dimensions stored on it and nothing else.
C13_SnapshotFrameButBounds ==
    [][last_content' # last_content =>
          \/ AnySyncStep
          \/ /\ SetSizeStep
             /\ last_content' = [last_content EXCEPT !.terminal_bounds = uiArg]]_vars

\* A sync replaced the snapshot while operations had been issued before it,
\* and the snapshot shows output.
C13_Witness ==
    /\ ops > 0
    /\ wakeDone > 0
    /\ last_content.cells # <<>>
    /\ last_content.cells = term.cells

\* A step in which input is called.
InputStep == ops' = ops + 1 /\ lastOp'.op = "input" /\ uiCont' = uiCont

LeftRelease ==
    /\ pointer'.n = pointer.n + 1
    /\ pointer'.last.ev = "up"
    /\ pointer'.last.button = "Left"

\* The URL under a pixel position, if any.
UrlUnder(position) ==
    LET point == pixel_to_grid_point(position, last_content) IN
    IF point.some THEN find_url_at_point(pointer.grid, point).url ELSE NoUrl

KeyHandled == keyst.pc \in {"tried", "view"}

\* C16: when the encoder returns no byte sequence for a key event, the session
\* (and the view calling it) writes nothing to the subprocess for that event
\* and reports the key as not handled.
C16_NothingWrittenWhenUnencoded ==
    (KeyHandled /\ ~keyst.esc.some) => (keyst.written = <<>> /\ ~keyst.ret)

\* The navigation keys the scrollback shortcuts use.
ShiftNavKeys == {"home", "end", "pageup", "pagedown"}

\* The alternate-screen sequence of a shifted navigation key: ESC[1;2H,
\* ESC[1;2F, ESC[5;2~, ESC[6;2~.
ShiftNavSeq(key) ==
    CASE key = "home"     -> <<27, 91, 49, 59, 50, 72>>
      [] key = "end"      -> <<27, 91, 49, 59, 50, 70>>
      [] key = "pageup"   -> <<27, 91, 53, 59, 50, 126>>
      [] key = "pagedown" -> <<27, 91, 54, 59, 50, 126>>

\* The encoder was applied to a navigation key with shift alone.
ShiftNavEncoded ==
    /\ keyst.pc = "encoded"
    /\ keyst.ks.key \in ShiftNavKeys
    /\ AlacModifiers(keyst.ks) = "Shift"

\* C18: with shift as the only modifier, Home, End, PageUp and PageDown encode
\* to their escape sequence when alternate-screen mode is active and to
\* nothing when it is not.
C18_ShiftNavOnlyInAltScreen ==
    ShiftNavEncoded =>
        keyst.esc = (IF keyst.mode.ALT_SCREEN THEN Some(ShiftNavSeq(keyst.ks.key)) ELSE None)

C18_Witness == ShiftNavEncoded /\ ~keyst.mode.ALT_SCREEN /\ keyst.ks.key = "pageup"

\* The final letter of a cursor key's sequence.
CursorLetter(key) ==
    CASE key = "up"    -> 65
      [] key = "down"  -> 66
      [] key = "right" -> 67
      [] key = "left"  -> 68
      [] key = "end"   -> 70
      [] key = "home"  -> 72

\* The encoder was applied to a cursor key with no modifier held.
CursorEncoded ==
    /\ keyst.pc = "encoded"
    /\ keyst.ks.key \in {"up", "down", "left", "right", "home", "end"}
    /\ AlacModifiers(keyst.ks) = "None"

\* C19: Up, Down, Left, Right, Home and End with no modifiers encode to
\* ESC O <letter> when application cursor mode is on and to ESC [ <letter> when
\* it is off, so the two modes give two different sequences for one event.
C19_AppCursorSequences ==
    CursorEncoded =>
        /\ keyst.esc = Some(<<27, IF keyst.mode.APP_CURSOR THEN 79 ELSE 91,
                              CursorLetter(keyst.ks.key)>>)
        /\ to_esc_str(impl, keyst.ks, [keyst.mode EXCEPT !.APP_CURSOR = TRUE], FALSE, keyst.macos)
             # to_esc_str(impl, keyst.ks, [keyst.mode EXCEPT !.APP_CURSOR = FALSE], FALSE, keyst.macos)

C19_Witness == CursorEncoded /\ keyst.mode.APP_CURSOR /\ keyst.ks.key = "up"

\* The lower-case letters as key names.
Letters ==
    {"a", "b", "c", "d", "e", "f", "g", "h", "i", "j", "k", "l", "m",
     "n", "o", "p", "q", "r", "s", "t", "u", "v", "w", "x", "y", "z"}

\* Exactly one of the modifier keys is held, control or shift.
OnlyControl(ks) == ks.control /\ ~ks.alt /\ ~ks.shift /\ ~ks.platform

OnlyShift(ks) == ks.shift /\ ~ks.alt /\ ~ks.control /\ ~ks.platform

\* The encoder was applied to a letter with control alone.
CtrlLetterEncoded ==
    keyst.pc = "encoded" /\ keyst.ks.key \in Letters /\ OnlyControl(keyst.ks)

\* The encoder was applied to Tab with shift alone.
ShiftTabEncoded ==
    keyst.pc = "encoded" /\ keyst.ks.key = "tab" /\ OnlyShift(keyst.ks)

\* C20: control with a letter encodes to the one byte 0x01..0x1A of that
\* letter, and shift with Tab to ESC [ Z, whatever the mode flags are.
C20_CaretAndReverseTab ==
    /\ CtrlLetterEncoded =>
         \A mode \in Modes :
             to_esc_str(impl, keyst.ks, mode, FALSE, keyst.macos)
               = Some(<<KeyBytes(keyst.ks.key)[1] - 96>>)
    /\ ShiftTabEncoded =>
         \A mode \in Modes :
             to_esc_str(impl, keyst.ks, mode, FALSE, keyst.macos) = Some(<<27, 91, 90>>)
    /\ (CtrlLetterEncoded \/ ShiftTabEncoded) =>
         keyst.esc = to_esc_str(impl, keyst.ks, keyst.mode, FALSE, keyst.macos)

C20_Witness ==
    /\ CtrlLetterEncoded
    /\ keyst.ks.key = "z"
    /\ keyst.esc = Some(<<26>>)
    /\ keyst.mode.ALT_SCREEN /\ keyst.mode.APP_CURSOR


\* The match has been trimmed.
Sanitized == link.pc = "sanitized"

\* The characters the trimming took from the end of the matched text.
CharsRemoved == Len(link.url) - Len(link.out.url)

\* The text ends in a closing parenthesis that no opening one balances.
EndsUnbalanced(u) ==
    u # <<>> /\ u[Len(u)] = ")" /\ Count(u, ")") > Count(u, "(")

\* The text ends in a closing parenthesis that an opening one balances.
EndsBalanced(u) ==
    u # <<>> /\ u[Len(u)] = ")" /\ Count(u, ")") <= Count(u, "(")

\* The trimmed text is what is left of the matched text, and the end of the
\* match has moved back by as many cells as characters were removed.
EndMovedByRemoved ==
    /\ link.out.url = SubSeq(link.url, 1, Len(link.out.url))
    /\ link.out.url_match.start = link.url_match.start
    /\ Offset(link.out.url_match.end) = Offset(link.url_match.end) - CharsRemoved

\* C17: the locator removes every trailing period, comma, colon, semicolon
\* and unbalanced closing parenthesis of a regex-matched URL and moves the end
\* of the match back by the number of characters removed; a closing
\* parenthesis balanced inside the URL is kept.
C17_TrailingPunctuationTrimmed ==
    Sanitized =>
        /\ link.out.url # <<>> => link.out.url[Len(link.out.url)] \notin {".", ",", ":", ";"}
        /\ ~EndsUnbalanced(link.out.url)
        /\ EndMovedByRemoved
        /\ EndsBalanced(link.url) => link.out.url = link.url

\* Every trimmed match has its end moved back by the characters removed.
EndMovedAfterTrim == Sanitized => EndMovedByRemoved

\* "http://example.com)." is trimmed to "http://example.com", two characters
\* shorter.
ExampleTrimmed ==
    (Sanitized /\ Len(link.url) = 20) =>
        /\ link.out.url = SubSeq(link.url, 1, 18)
        /\ CharsRemoved = 2


\* The keys implementation i has a modifier template for: the arrows, the
\* function keys and insert, pageup, pagedown, end, home.
TemplateKeys(i) ==
    {k \in KeyInputs : modified_esc_str_first(i, k, 1).some \/ modified_esc_str_rest(k, 1).some}

\* The template sequence of a key for a modifier code.
TemplateSeq(i, key, code) ==
    IF modified_esc_str_first(i, key, code).some THEN modified_esc_str_first(i, key, code)
    ELSE modified_esc_str_rest(key, code)

\* The modifier code as documented: 1 + (1 if shift) + (2 if alt) + (4 if control).
DocumentedCode(ks) ==
    1 + (IF ks.shift THEN 1 ELSE 0) + (IF ks.alt THEN 2 ELSE 0) + (IF ks.control THEN 4 ELSE 0)

\* The encoder was applied to a key that has a template, with a modifier held
\* and no table entry matching.
TemplateCase ==
    /\ keyst.pc = "encoded"
    /\ keyst.ks.key \in TemplateKeys(impl)
    /\ (keyst.ks.shift \/ keyst.ks.alt \/ keyst.ks.control \/ keyst.ks.platform)
    /\ ~manual_esc_str(impl, keyst.ks.key, AlacModifiers(keyst.ks), keyst.mode).some

\* The keys whose templates stand after the modifier_code == 2 arm.
SuppressedKeys == {"insert", "pageup", "pagedown", "end", "home"}

\* Ctrl+Shift+Up gives ESC[1;6A and Alt+F5 gives ESC[15;3~.
TemplateExamples ==
    /\ (keyst.ks.key = "up" /\ keyst.ks.control /\ keyst.ks.shift /\ ~keyst.ks.alt)
         => keyst.esc = Some(<<27, 91, 49, 59, 54, 65>>)
    /\ (keyst.ks.key = "f5" /\ keyst.ks.alt /\ ~keyst.ks.shift /\ ~keyst.ks.control)
         => keyst.esc = Some(<<27, 91, 49, 53, 59, 51, 126>>)

\* C21 as stated: when no table entry matches and a modifier is held, a key
\* with a template is encoded through that template with the modifier code
\* 1 + (1 if shift) + (2 if alt) + (4 if control).
C21_TemplateWithCode ==
    TemplateCase =>
        /\ keyst.esc = TemplateSeq(impl, keyst.ks.key, DocumentedCode(keyst.ks))
        /\ TemplateExamples

\* C21, amended: the same, except that with modifier code 2 (shift and neither
\* alt nor control) insert, pageup, pagedown, end and home are not encoded
\* through their template: the encoder returns nothing for them.
C21_TemplateWithCodeButShiftNav ==
    TemplateCase =>
        IF DocumentedCode(keyst.ks) = 2 /\ keyst.ks.key \in SuppressedKeys
        THEN ~keyst.esc.some
        ELSE /\ keyst.esc = TemplateSeq(impl, keyst.ks.key, DocumentedCode(keyst.ks))
             /\ TemplateExamples

C21_Witness ==
    /\ TemplateCase
    /\ keyst.ks.key = "up" /\ keyst.ks.control /\ keyst.ks.shift /\ ~keyst.ks.alt
    /\ keyst.esc = Some(<<27, 91, 49, 59, 54, 65>>)


\* The encoder's result is the escape byte followed by the key, upper-cased
\* when shift is held.
EscPrefixProduced ==
    /\ keyst.pc = "encoded"
    /\ keyst.esc = Some(<<27>> \o (IF keyst.ks.shift THEN to_ascii_uppercase(KeyBytes(keyst.ks.key))
                                   ELSE KeyBytes(keyst.ks.key)))

\* No table entry and no template matched the event.
NoEarlierMatch ==
    /\ ~manual_esc_str(impl, keyst.ks.key, AlacModifiers(keyst.ks), keyst.mode).some
    /\ ~(any(AlacModifiers(keyst.ks))
           /\ modified_esc_str(impl, keyst.ks.key, modifier_code(keyst.ks)).some)

\* C22: the ESC-prefixed encoding is produced exactly when alt counts as meta
\* (not a macOS build, option_as_meta being off), the key is ASCII, no table
\* or template entry matched, and alt is held alone or with shift only; it is
\* not produced when control or the platform modifier is also held.
C22_EscPrefixOnlyForAlt ==
    keyst.pc = "encoded" =>
        (EscPrefixProduced <=>
            /\ ~keyst.macos
            /\ is_ascii(KeyBytes(keyst.ks.key))
            /\ NoEarlierMatch
            /\ keyst.ks.alt /\ ~keyst.ks.control /\ ~keyst.ks.platform)


\* The key event carries literal text.
CarriesText == keyst.ks.key_char.some /\ keyst.ks.key_char.bytes # <<>>

\* C23: a handled key event that carries non-empty literal text, has no
\* modifier or only shift held and matches no earlier encoding rule has
\* exactly that text written to the subprocess; the literal text of an event
\* with control, alt or the platform modifier held is not written.
C23_LiteralTextOnlyUnmodified ==
    (KeyHandled /\ CarriesText) =>
        /\ (AlacModifiers(keyst.ks) \in {"None", "Shift"} /\ NoEarlierMatch)
             => keyst.written = <<keyst.ks.key_char.bytes>>
        /\ (keyst.ks.control \/ keyst.ks.alt \/ keyst.ks.platform)
             => keyst.written # <<keyst.ks.key_char.bytes>>


\* The counts of some bounds have been derived.
Measured == metrics.pc = "measured"

\* The pixel size is not negative and the cell metrics are positive.
ProperBounds(b) == b.height >= 0 /\ b.width >= 0 /\ b.line_height > 0 /\ b.cell_width > 0

\* rows = floor(height / line_height) and columns = floor(width / cell_width),
\* where the quotient exists.
CountsAreFloors ==
    /\ metrics.bounds.line_height # 0
    /\ metrics.bounds.cell_width # 0
    /\ metrics.rows = FloorDiv(metrics.bounds.height, metrics.bounds.line_height)
    /\ metrics.columns = FloorDiv(metrics.bounds.width, metrics.bounds.cell_width)

\* C24 as stated: for all pixel bounds and cell metrics the row count is
\* floor(height / line_height), the column count is floor(width / cell_width),
\* and neither is negative.
C24_CountsAreFloors ==
    Measured => (CountsAreFloors /\ metrics.rows >= 0 /\ metrics.columns >= 0)

\* C24, amended: for a non-negative pixel size and positive cell metrics the
\* counts are those floors; for all bounds and metrics neither count is
\* negative, a negative quotient giving 0.
C24_CountsAreFloorsOfProperBounds ==
    Measured =>
        /\ ProperBounds(metrics.bounds) => CountsAreFloors
        /\ metrics.rows >= 0 /\ metrics.columns >= 0
        /\ (metrics.bounds.line_height # 0
              /\ FloorDiv(metrics.bounds.height, metrics.bounds.line_height) < 0)
             => metrics.rows = 0

C24_Witness ==
    /\ Measured
    /\ metrics.bounds = Bounds(-41, 20, 300, 7)
    /\ metrics.rows = 0
    /\ metrics.columns = 42


\* C25: every queued resize or scroll request is eventually applied to the
\* engine and reflected in a snapshot (the sync that applies the pending queue
\* empties it and takes the snapshot), even when the subprocess writes nothing
\* more after the request was queued.
C25_QueuedEventuallyApplied == (events # <<>>) ~> (events = <<>>)


\* A step in which a button is released and an OpenUrl is emitted.
ReleaseOpens ==
    /\ pointer'.n = pointer.n + 1
    /\ pointer'.last.ev = "up"
    /\ Len(pointer'.opened) = Len(pointer.opened) + 1

\* C26: a release emits OpenUrl for a URL only if the press event before it
\* was an engaged press (left button, platform modifier held) on that URL;
\* pointer.pressed is the URL of the last press if that press was engaged and
\* found one.
C26_OpenOnlyAfterEngagedPress ==
    [][ReleaseOpens => pointer'.opened[Len(pointer'.opened)] = pointer.pressed]_vars


\* C27: for one subprocess exit the session emits at most one CloseTerminal,
\* whatever Exit and ChildExit notifications the engine produces for it (the
\* subprocess of a session exits once).
C27_OneCloseTerminal == Count(emitted, "CloseTerminal") <= 1


\* The terminal view received a navigation key with shift held while the
\* snapshot is in alternate-screen mode.
ShiftNavInAltScreen ==
    /\ keyst.pc = "view"
    /\ keyst.ks.key \in ShiftNavKeys
    /\ OnlyShift(keyst.ks)
    /\ keyst.mode.ALT_SCREEN

\* C28: with alternate-screen mode active, Shift+PageUp, Shift+PageDown,
\* Shift+Home or Shift+End received by the terminal view has its escape
\* sequence written to the subprocess and queues no scrollback scroll (the
\* write itself queues the scroll to the bottom that every input queues).
C28_ViewEncodesInAltScreen ==
    ShiftNavInAltScreen =>
        /\ keyst.written = <<ShiftNavSeq(keyst.ks.key)>>
        /\ keyst.queued \in {<<>>, input(<<>>)}


\* C29: whenever the locator returns a URL for a grid coordinate, the range
\* it returns contains that coordinate, also after the trimming of trailing
\* punctuation has shortened the range.
C29_RangeContainsPoint ==
    Sanitized => contains_point(link.out.url_match, link.point)


\* The encoder's result is a template sequence of the key, for some modifier
\* code, no table entry having matched.
TemplateProduced(codes) ==
    /\ keyst.pc = "encoded"
    /\ keyst.ks.key \in TemplateKeys(impl)
    /\ ~manual_esc_str(impl, keyst.ks.key, AlacModifiers(keyst.ks), keyst.mode).some
    /\ \E code \in codes : keyst.esc = TemplateSeq(impl, keyst.ks.key, code)

\* C30: the modifier template is used only when shift, alt or control is
\* held: a template-produced sequence carries a modifier code from 2 to 8, and
\* an event whose only held modifier is the platform key yields no template
\* sequence.
C30_TemplateCodeInTable ==
    TemplateProduced(0..9) =>
        /\ TemplateProduced(2..8)
        /\ (keyst.ks.shift \/ keyst.ks.alt \/ keyst.ks.control)

====
